---- MODULE Spec2Model ----
(***************************************************************************)
(* Face verification core of clock-in-pro: the encoder scripts under       *)
(* server/ (one subprocess per call), the verify orchestrator of           *)
(* server/actual_deepface.py and the in-process FaceAnalysisSystem of      *)
(* face_analysis_system.py.                                                *)
(*                                                                         *)
(* Numbers.  A Python float x is carried as the integer x * Scale          *)
(* (thousandths), rounded down after every multiplication, division and    *)
(* square root; NaN is the value NaN below.  Raw features, before they are *)
(* normalised, are carried in hundredths (PixelUnit).  Images.  A decoded image is   *)
(* carried as the list of regions the Haar cascade can report in it, each  *)
(* with its side length, the number of neighbouring detections supporting  *)
(* it and the cell intensities of the cropped region (the numbers the      *)
(* feature extractors summarise).                                          *)
(***************************************************************************)
EXTENDS Integers, Sequences, FiniteSets, TLC

VARIABLES
    program,      \* which script or class this behaviour runs
    store,        \* encoder scripts: the encodings the caller kept from encode calls
    out,          \* encoder scripts: the JSON response of the last call
    pc,           \* actual_deepface: where the process is
    env,          \* actual_deepface: what the deployment image can import, hash seed
    DEEPFACE_AVAILABLE,   \* actual_deepface: module global
    FALLBACK_READY,       \* actual_deepface: module global
    request,      \* actual_deepface: the parsed verify request
    warning_message,      \* actual_deepface: local of main()
    responses,    \* actual_deepface: the JSON objects printed to stdout
    trace,        \* actual_deepface: what was called, for the properties
    face_encodings,       \* FaceAnalysisSystem: dict face_id -> encoding
    face_metadata,        \* FaceAnalysisSystem: dict face_id -> metadata
    comparison_matrix,    \* FaceAnalysisSystem: None or the stored matrix
    clock,        \* FaceAnalysisSystem: time.time() in milliseconds
    ret,          \* FaceAnalysisSystem: what the last method call returned
    threads,      \* FaceAnalysisSystem shared by two threads: where each thread is
    call          \* library functions called directly: the last call and its result

encoderVars == <<store, out>>

verifyVars ==
    <<pc, env, DEEPFACE_AVAILABLE, FALLBACK_READY, request, warning_message,
      responses, trace>>

analysisVars ==
    <<face_encodings, face_metadata, comparison_matrix, clock, ret, threads>>

libraryVars == <<call>>

(***************************************************************************)
(* Fixed-point arithmetic                                                  *)
(***************************************************************************)
Scale == 10 * 10 * 10

NaN == 0 - 1

RECURSIVE SqrtSearch(_, _, _)
SqrtSearch(n, lo, hi) ==
    IF lo >= hi THEN lo
    ELSE LET mid == (lo + hi + 1) \div 2
         IN IF mid * mid <= n THEN SqrtSearch(n, mid, hi)
                              ELSE SqrtSearch(n, lo, mid - 1)

\* floor of the square root of n >= 0 (46340 is the largest root of a 32-bit n)
ISqrt(n) == SqrtSearch(n, 0, IF n > 46340 THEN 46340 ELSE n)

Abs(x) == IF x < 0 THEN 0 - x ELSE x

RECURSIVE SumSeq(_)
SumSeq(s) == IF s = <<>> THEN 0 ELSE Head(s) + SumSeq(Tail(s))

SumSq(v) == SumSeq([i \in 1..Len(v) |-> v[i] * v[i]])

\* np.linalg.norm of a vector of thousandths, in thousandths
Norm(v) == ISqrt(SumSq(v))

\* elementwise a - b for two vectors of the same length
VecSub(a, b) == [i \in 1..Len(a) |-> a[i] - b[i]]

\* float comparison d <= t; every comparison with NaN is false
Leq(d, t) == d # NaN /\ t # NaN /\ d <= t

(***************************************************************************)
(* Images                                                                  *)
(***************************************************************************)
\* One region the cascade can report: side length in pixels, supporting
\* neighbour count, and the cell intensities (0..255) of the cropped region.
Region(sz, nb, ft) == [size |-> sz, nb |-> nb, feat |-> ft]

ImgA == [id |-> "A", cands |-> << Region(120, 12, <<100, 200, 150>>) >>]
ImgB == [id |-> "B", cands |-> << Region(120, 12, <<110, 190, 160>>) >>]
ImgC == [id |-> "C", cands |-> << Region(100, 8, <<220, 20, 90>>) >>]
\* a second picture of the face of ImgA: one feature differs by a hundredth
ImgD == [id |-> "D", cands |-> << Region(120, 12, <<100, 200, 151>>) >>]
ImgM == [id |-> "M", cands |-> << Region(25, 2, <<60, 70, 65>>) >>]
ImgN == [id |-> "N", cands |-> << >>]

FaceImages == {ImgA, ImgB, ImgC}

Images == FaceImages \cup {ImgM, ImgN}

\* A base64 payload as sent to a script: the image it decodes to, and whether
\* it carries the "data:image/...;base64," prefix.  Corrupt payloads do not
\* decode (base64 or PIL raises).
Payload(img, prefix) == [img |-> img, prefix |-> prefix, corrupt |-> FALSE]

CorruptPayload == [img |-> ImgN, prefix |-> FALSE, corrupt |-> TRUE]

\* detectMultiScale(gray, scaleFactor, minNeighbors, minSize): the regions with
\* enough supporting neighbours and at least the minimum size, in scan order.
DetectMultiScale(img, minNeighbors, minSize) ==
    SelectSeq(img.cands, LAMBDA c : c.nb >= minNeighbors /\ c.size >= minSize)

\* max(faces, key=w*h): the largest region, the first one on ties
RECURSIVE LargestFrom(_, _)
LargestFrom(best, rest) ==
    IF rest = <<>> THEN best
    ELSE IF Head(rest).size * Head(rest).size > best.size * best.size
         THEN LargestFrom(Head(rest), Tail(rest))
         ELSE LargestFrom(best, Tail(rest))

LargestFace(faces) == LargestFrom(Head(faces), Tail(faces))

\* L2 normalisation: divide by the norm, skipped when the norm is 0
L2Normalize(v) ==
    LET n == Norm(v)
    IN IF n > 0 THEN [i \in 1..Len(v) |-> (v[i] * Scale) \div n] ELSE v

\* cell intensities as raw float features (hundredths)
PixelUnit == 10 * 10

AsFloat(ft) == [i \in 1..Len(ft) |-> ft[i] * PixelUnit]

\* the outcome of an operation that may raise
Ok(v) == [ok |-> TRUE, val |-> v, err |-> "none"]
Raise(e) == [ok |-> FALSE, val |-> <<>>, err |-> e]

(***************************************************************************)
(* server/simple_face_recognition.py                                       *)
(***************************************************************************)
\* np.random.seed(42); np.random.normal(0, 0.01, 50): the same samples in
\* every call (0.00497, -0.00138, ...), rounded down to hundredths
NoiseFeatures == <<0, 0 - 1>>

\* hash(bytes) of CPython: SipHash keyed by the per-process hash seed
\* (PYTHONHASHSEED unset), a function of (seed, bytes) and nothing else
PyHash(seed, bytes) ==
    ((seed + 1) * 7919 * (SumSeq(bytes) + 13) + seed * 604729 + SumSq(bytes)) % 1000000

\* the three detection passes of encode_face
SimpleDetect(img) ==
    LET p1 == DetectMultiScale(img, 3, 30)
        p2 == DetectMultiScale(img, 5, 20)
        p3 == DetectMultiScale(img, 2, 15)
    IN IF p1 # <<>> THEN p1 ELSE IF p2 # <<>> THEN p2 ELSE p3

\* face_hash = hash(face_roi.tobytes()) % 1000000; signature = face_hash / 1e6
SimpleSignature(seed, face) == PyHash(seed, face.feat) \div Scale

SimpleEncodeFace(payload, seed) ==
    IF payload.corrupt THEN Raise("Failed to process image")
    ELSE LET faces == SimpleDetect(payload.img)
         IN IF faces = <<>> THEN Raise("No face detected")
            ELSE LET face == LargestFace(faces)
                     features == AsFloat(face.feat) \o NoiseFeatures
                 IN Ok(L2Normalize(features) \o << SimpleSignature(seed, face) >>)

(***************************************************************************)
(* server/reliable_face_recognition.py                                     *)
(***************************************************************************)
ReliableParams == << <<3, 20>>, <<5, 15>>, <<2, 25>>, <<4, 10>>, <<3, 30>>, <<4, 20>> >>

\* detect_face_robust: the first parameter set that finds a region.  The
\* profile and alt cascades that follow find nothing in a frontal image.
RECURSIVE RobustPasses(_, _)
RobustPasses(img, params) ==
    IF params = <<>> THEN <<>>
    ELSE LET f == DetectMultiScale(img, Head(params)[1], Head(params)[2])
         IN IF f # <<>> THEN f ELSE RobustPasses(img, Tail(params))

ReliableEncodeFace(payload) ==
    IF payload.corrupt THEN Raise("Failed to process image")
    ELSE LET faces == RobustPasses(payload.img, ReliableParams)
         IN IF faces = <<>> THEN Raise("No face detected")
            ELSE Ok(L2Normalize(AsFloat(LargestFace(faces).feat)))

(***************************************************************************)
(* server/secure_face_recognition.py                                       *)
(***************************************************************************)
\* the middle value of a vector of three (np.median)
Median3(v) ==
    CHOOSE m \in {v[1], v[2], v[3]} :
        /\ Cardinality({i \in 1..3 : v[i] <= m}) >= 2
        /\ Cardinality({i \in 1..3 : v[i] >= m}) >= 2

Clip(x, lo, hi) == IF x < lo THEN lo ELSE IF x > hi THEN hi ELSE x

\* robust_normalize: (x - median) / (1.4826 MAD) clipped to [-3, 3], then L2
RobustNormalize(v) ==
    LET med == Median3(v)
        dev == [i \in 1..Len(v) |-> Abs(v[i] - med)]
        mad == Median3(dev)
        normalized ==
            IF mad > 0
            THEN [i \in 1..Len(v) |->
                    Clip(((v[i] - med) * Scale) \div ((mad * 14826) \div 10000),
                         0 - 3 * Scale, 3 * Scale)]
            ELSE [i \in 1..Len(v) |-> v[i] - med]
    IN L2Normalize(normalized)

\* hashlib.sha256(image_data.encode()).hexdigest()[:16] as ord(c) / 255: a
\* function of the payload STRING (prefix included), the same in every process
Sha256Features(payload) ==
    LET digest == SumSeq(payload.img.cands[1].feat) * 37
                  + (IF payload.prefix THEN 101 ELSE 0)
        c == (digest % 55) + 48
    IN << (c * Scale) \div 255 >>

SecureDetect(img) ==
    LET p1 == DetectMultiScale(img, 6, 100)
    IN IF p1 # <<>> THEN p1 ELSE DetectMultiScale(img, 8, 80)

SecureEncodeFace(payload) ==
    IF payload.corrupt THEN Raise("Failed to process image")
    ELSE LET faces == SecureDetect(payload.img)
         IN IF faces = <<>> THEN Raise("No face detected")
            ELSE LET face == LargestFace(faces)
                 IN IF face.size < 80 THEN Raise("Face too small")
                    ELSE Ok(RobustNormalize(AsFloat(face.feat))
                            \o Sha256Features(payload))

(***************************************************************************)
(* server/face_recognition_service.py                                      *)
(***************************************************************************)
\* extract_facial_features, from the structure modifier on
ServiceFeatures(ft) ==
    LET features == AsFloat(ft)
        facial_signature == (SumSeq(features) * PixelUnit) % 1000
        factor == Scale + facial_signature \div 10
        scaled == [i \in 1..Len(features) |-> (features[i] * factor) \div Scale]
        unit == L2Normalize(scaled)
    IN [i \in 1..Len(unit) |-> unit[i] * 2]

\* generate_face_encoding: one detection pass (1.3, 5), largest face
GenerateFaceEncoding(payload) ==
    IF payload.corrupt THEN Raise("Failed to process image")
    ELSE LET faces == DetectMultiScale(payload.img, 5, 0)
         IN IF faces = <<>> THEN Raise("No face detected in image")
            ELSE Ok(ServiceFeatures(LargestFace(faces).feat))

(***************************************************************************)
(* The scripts' inputs and the encode function of each script              *)
(***************************************************************************)
EncoderPrograms ==
    {"simple_face_recognition", "reliable_face_recognition",
     "secure_face_recognition", "face_recognition_service"}

\* hash seeds a fresh interpreter can draw: 0..MaxSeed
MaxSeed == 1
Seeds == 0..MaxSeed

\* the seeds that make a difference to a script: only simple_face_recognition
\* calls hash()
ProcessSeeds(prog) == IF prog = "simple_face_recognition" THEN Seeds ELSE {0}

EncoderPayloads ==
    {Payload(i, FALSE) : i \in FaceImages \cup {ImgD, ImgN}}
        \cup {Payload(ImgA, TRUE), CorruptPayload}

\* the encode function of each script
EncodeFaceOf(prog, payload, seed) ==
    CASE prog = "simple_face_recognition" -> SimpleEncodeFace(payload, seed)
      [] prog = "reliable_face_recognition" -> ReliableEncodeFace(payload)
      [] prog = "secure_face_recognition" -> SecureEncodeFace(payload)
      [] prog = "face_recognition_service" -> GenerateFaceEncoding(payload)

\* the encodings, tabulated once
EncodeTable ==
    [prog \in EncoderPrograms |-> [payload \in EncoderPayloads |->
        [seed \in Seeds |-> EncodeFaceOf(prog, payload, seed)]]]

EncodeFace(prog, payload, seed) == EncodeTable[prog][payload][seed]

(***************************************************************************)
(* Distances and compare operations                                        *)
(***************************************************************************)
\* calibration constants of calculate_face_distance, in percent / thousandths
CalibrationPercent == 85
LiftBelow == 550
LiftBase == 600

\* calculate_face_distance whose lift looks at the first encoding only
CalculateFaceDistanceOneSided(enc1, enc2) ==
    IF Len(enc1) # Len(enc2) THEN Raise("Encoding dimension mismatch")
    ELSE LET distance == Norm(VecSub(enc1, enc2))
             calibrated == (distance * CalibrationPercent) \div 100
         IN IF calibrated < LiftBelow /\ SumSeq(enc1) # 0
            THEN Ok(LiftBase + calibrated \div 10)
            ELSE Ok(calibrated)

\* calculate_face_distance without the array_equal test: every small distance
\* is lifted, the one of an encoding to itself too
CalculateFaceDistanceLiftingEqual(enc1, enc2) ==
    IF Len(enc1) # Len(enc2) THEN Raise("Encoding dimension mismatch")
    ELSE LET distance == Norm(VecSub(enc1, enc2))
             calibrated == (distance * CalibrationPercent) \div 100
         IN IF calibrated < LiftBelow
            THEN Ok(LiftBase + calibrated \div 10)
            ELSE Ok(calibrated)

\* calculate_face_distance(encoding1, encoding2)
CalculateFaceDistance(enc1, enc2) ==
    IF Len(enc1) # Len(enc2) THEN Raise("Encoding dimension mismatch")
    ELSE LET distance == Norm(VecSub(enc1, enc2))
             calibrated == (distance * CalibrationPercent) \div 100
         IN IF calibrated < LiftBelow /\ enc1 # enc2
            THEN Ok(LiftBase + calibrated \div 10)
            ELSE Ok(calibrated)

\* a result dictionary whose decision is distance < tolerance
CompareResultStrict(distance, tolerance) ==
    [distance |-> distance,
     is_match |-> distance # NaN /\ tolerance # NaN /\ distance < tolerance,
     tolerance |-> tolerance]

\* the result dictionary of a compare function
CompareResult(distance, tolerance) ==
    [distance |-> distance, is_match |-> Leq(distance, tolerance),
     tolerance |-> tolerance]

\* face_recognition_service.compare_faces(known_encoding, unknown_image_data, tolerance)
ServiceCompareFaces(known, payload, tolerance) ==
    LET unknown == GenerateFaceEncoding(payload)
    IN IF ~unknown.ok THEN Raise(unknown.err)
       ELSE LET d == CalculateFaceDistance(known, unknown.val)
            IN IF ~d.ok THEN Raise(d.err)
               ELSE Ok(CompareResult(d.val, tolerance))

\* known_array - unknown_array of two 1-d numpy arrays: elementwise for equal
\* lengths, a length-1 array is broadcast, any other pair of lengths raises
NumpySub(a, b) ==
    IF Len(a) = Len(b) THEN Ok(VecSub(a, b))
    ELSE IF Len(a) = 1 THEN Ok([i \in 1..Len(b) |-> a[1] - b[i]])
    ELSE IF Len(b) = 1 THEN Ok([i \in 1..Len(a) |-> a[i] - b[1]])
    ELSE Raise("operands could not be broadcast together")

\* the comparison shared by compare_faces_simple and compare_faces_reliable
EuclideanCompare(known, unknown, tolerance) ==
    LET diff == NumpySub(known, unknown)
    IN IF ~diff.ok THEN Raise(diff.err)
       ELSE Ok(CompareResult(Norm(diff.val), tolerance))

\* compare_faces_simple(known_encoding, unknown_image_data, tolerance)
CompareFacesSimple(known, payload, tolerance, seed) ==
    LET unknown == SimpleEncodeFace(payload, seed)
    IN IF ~unknown.ok THEN Raise(unknown.err)
       ELSE EuclideanCompare(known, unknown.val, tolerance)

\* compare_faces_reliable(known_encoding, unknown_image_data, tolerance)
CompareFacesReliable(known, payload, tolerance) ==
    LET unknown == ReliableEncodeFace(payload)
    IN IF ~unknown.ok THEN Raise(unknown.err)
       ELSE EuclideanCompare(known, unknown.val, tolerance)

Min(a, b) == IF a <= b THEN a ELSE b

Dot(a, b) == SumSeq([i \in 1..Len(a) |-> a[i] * b[i]])

\* compare_faces_ultra_secure(known_encoding, unknown_image_data, tolerance):
\* both arrays are cut to the shorter length before the distances are taken
CompareFacesUltraSecure(known, payload, tolerance) ==
    LET unknown == SecureEncodeFace(payload)
    IN IF ~unknown.ok THEN Raise(unknown.err)
       ELSE LET min_len == Min(Len(known), Len(unknown.val))
                k == SubSeq(known, 1, min_len)
                u == SubSeq(unknown.val, 1, min_len)
                euclidean == Norm(VecSub(k, u))
                norms == Norm(k) * Norm(u)
                cosine == IF norms = 0 THEN Scale
                          ELSE Scale - (Dot(k, u) * Scale) \div norms
                manhattan == SumSeq([i \in 1..min_len |-> Abs(k[i] - u[i])])
                combined == IF min_len = 0 THEN NaN
                            ELSE (5 * euclidean + 3 * cosine
                                  + (2 * manhattan) \div min_len) \div 10
            IN Ok(CompareResult(combined, tolerance))

(***************************************************************************)
(* The encoder scripts, one subprocess per call                            *)
(***************************************************************************)
\* how many encodings the caller keeps
MaxStore == 2

\* tolerance = data.get('tolerance', 0.6), 0.3 in secure_face_recognition
DefaultTolerance == 600
SecureTolerance == 300
\* the tolerance test_security_verification.py passes
TestTolerance == 800

Tolerances(prog) ==
    {0, CASE prog = "secure_face_recognition" -> SecureTolerance
          [] prog = "reliable_face_recognition" -> TestTolerance
          [] OTHER -> DefaultTolerance}

\* known_encoding lists a caller can send besides the ones it stored
CallerEncodings == { <<>>, <<500>>, <<300, 400>> }

\* the compare function of each script
CompareFacesOf(prog, known, payload, tolerance, seed) ==
    CASE prog = "simple_face_recognition" ->
             CompareFacesSimple(known, payload, tolerance, seed)
      [] prog = "reliable_face_recognition" ->
             CompareFacesReliable(known, payload, tolerance)
      [] prog = "secure_face_recognition" ->
             CompareFacesUltraSecure(known, payload, tolerance)
      [] prog = "face_recognition_service" ->
             ServiceCompareFaces(known, payload, tolerance)

\* every encoding a script can return, and the lists a caller can make up
KnownEncodings(prog) ==
    {EncodeFace(prog, payload, seed).val : payload \in EncoderPayloads, seed \in Seeds}
        \cup CallerEncodings

\* the compare results, tabulated once
CompareTable ==
    [prog \in EncoderPrograms |-> [known \in KnownEncodings(prog) |->
        [payload \in EncoderPayloads |-> [tolerance \in Tolerances(prog) |->
            [seed \in Seeds |-> CompareFacesOf(prog, known, payload, tolerance, seed)]]]]]

CompareFaces(prog, known, payload, tolerance, seed) ==
    CompareTable[prog][known][payload][tolerance][seed]

NoResult == [distance |-> 0, is_match |-> FALSE, tolerance |-> 0]

NoOut ==
    [op |-> "none", success |-> FALSE, encoding |-> <<>>, result |-> NoResult,
     error |-> "none", img |-> "none", known |-> <<>>, knownImg |-> "none",
     unknownLen |-> 0]

\* main(), operation "encode": one JSON response; the caller keeps the
\* encoding of a successful response while it has room
MainEncode(payload, seed) ==
    /\ program \in EncoderPrograms
    /\ LET r == EncodeFace(program, payload, seed)
       IN /\ out' = [NoOut EXCEPT !.op = "encode", !.success = r.ok,
                                  !.encoding = r.val, !.error = r.err,
                                  !.img = payload.img.id]
          /\ store' = IF r.ok /\ Cardinality(store) < MaxStore
                      THEN store \cup {[img |-> payload.img.id, enc |-> r.val]}
                      ELSE store
    /\ UNCHANGED <<program, verifyVars, analysisVars, libraryVars>>

\* main(), operation "compare", with a stored or a caller-made known encoding
MainCompare(known, knownImg, payload, tolerance, seed) ==
    /\ program \in EncoderPrograms
    /\ LET r == CompareFaces(program, known, payload, tolerance, seed)
           u == EncodeFace(program, payload, seed)
       IN out' = [NoOut EXCEPT !.op = "compare", !.success = r.ok,
                               !.result = IF r.ok THEN r.val ELSE NoResult,
                               !.error = r.err, !.img = payload.img.id,
                               !.known = known, !.knownImg = knownImg,
                               !.unknownLen = Len(u.val)]
    /\ UNCHANGED <<program, store, verifyVars, analysisVars, libraryVars>>

\* main() with any other operation name
MainUnknownOperation ==
    /\ program \in EncoderPrograms
    /\ out' = [NoOut EXCEPT !.op = "other", !.error = "Unknown operation"]
    /\ UNCHANGED <<program, store, verifyVars, analysisVars, libraryVars>>

EncoderNext ==
    \/ \E payload \in EncoderPayloads, seed \in ProcessSeeds(program) :
          MainEncode(payload, seed)
    \/ \E r \in store, payload \in EncoderPayloads,
          tolerance \in Tolerances(program), seed \in ProcessSeeds(program) :
          MainCompare(r.enc, r.img, payload, tolerance, seed)
    \/ \E e \in CallerEncodings, payload \in EncoderPayloads,
          tolerance \in Tolerances(program), seed \in ProcessSeeds(program) :
          MainCompare(e, "caller", payload, tolerance, seed)
    \/ MainUnknownOperation

(***************************************************************************)
(* server/actual_deepface.py, operation "verify"                           *)
(***************************************************************************)
\* custom_threshold of verify_faces_with_actual_deepface
CustomThreshold == 650
\* the threshold DeepFace itself applies, as the source's comment gives it
DeepFaceThreshold == 400
\* tolerance verify_faces_with_simple_fallback passes to compare_faces_simple
FallbackTolerance == 750

VerifyPayloads == {Payload(i, FALSE) : i \in {ImgA, ImgB, ImgC, ImgN}} \cup {CorruptPayload}

\* what stdin holds: a JSON object with the two images, or text json.loads rejects
Requests ==
    {[parsed |-> TRUE, registered_image |-> r, captured_image |-> c] :
        r \in VerifyPayloads, c \in VerifyPayloads}
    \cup {[parsed |-> FALSE, registered_image |-> CorruptPayload,
           captured_image |-> CorruptPayload]}

NoRequest ==
    [parsed |-> FALSE, registered_image |-> CorruptPayload,
     captured_image |-> CorruptPayload]

\* distances the Facenet model can report for a pair of faces
FacenetDistances == {0, DeepFaceThreshold, CustomThreshold, CustomThreshold + 1, 900}

\* the detector DeepFace runs (detector_backend='opencv', enforce_detection=True)
\* is the library's own: it finds nothing where there is no candidate region,
\* and may or may not accept a candidate
DeepFaceMayDetect(img) == img.cands # <<>>

NoTrace ==
    [primaryCalls |-> 0, fallbackCalls |-> 0, loadAttempts |-> 0,
     primaryOutcome |-> "none", fallbackOutcome |-> "none",
     refVariant |-> "none", capVariant |-> "none", uncaught |-> FALSE]

\* a JSON object printed to stdout
Response(success, engine, result, error, warning) ==
    [success |-> success, engine |-> engine, verified |-> result.is_match,
     distance |-> result.distance, threshold |-> result.tolerance,
     error |-> error, warning |-> warning]

\* ensure_fallback_loaded(): TRUE when the fallback is already loaded or the
\* import of simple_face_recognition succeeds now
EnsureFallbackLoaded(ready) == ready \/ env.fallback

\* module import: the DeepFace import is tried, and when it fails the fallback
\* is loaded at once
ImportModule ==
    /\ program = "actual_deepface"
    /\ pc = "import"
    /\ DEEPFACE_AVAILABLE' = env.deepface
    /\ FALLBACK_READY' = IF env.deepface THEN FALSE ELSE EnsureFallbackLoaded(FALSE)
    /\ trace' = [trace EXCEPT !.loadAttempts = IF env.deepface THEN 0 ELSE 1]
    /\ pc' = "main"
    /\ UNCHANGED <<program, encoderVars, analysisVars, libraryVars, env, request, warning_message, responses>>

\* main(), operation "verify": which engine is tried first
FirstEngine(available) == IF available THEN "primary" ELSE "fallback"

\* main(): stdin is read and parsed; text that is no JSON object raises into the
\* outer handler, which prints the error response
ReadRequest(req) ==
    /\ program = "actual_deepface"
    /\ pc = "main"
    /\ request' = req
    /\ IF req.parsed
       THEN /\ pc' = FirstEngine(DEEPFACE_AVAILABLE)
            /\ UNCHANGED responses
       ELSE /\ pc' = "done"
            /\ responses' = Append(responses,
                                   Response(FALSE, "none", NoResult, "json", "none"))
    /\ UNCHANGED <<program, encoderVars, analysisVars, libraryVars, env, DEEPFACE_AVAILABLE, FALLBACK_READY,
                   warning_message, trace>>

\* verify_faces_with_actual_deepface: what it returns or raises
PrimaryOutcomes ==
    IF request.registered_image.corrupt \/ request.captured_image.corrupt
    THEN {Raise("Failed to process image")}
    ELSE {Raise("Face could not be detected")}
         \cup IF DeepFaceMayDetect(request.registered_image.img)
                 /\ DeepFaceMayDetect(request.captured_image.img)
              THEN {Ok(CompareResult(d, CustomThreshold)) : d \in FacenetDistances}
                       \cup {Raise("DeepFace engine error")}
              ELSE {}

\* a primary block that prints its result and does not return
MainPrimaryBlockFallsThrough(r) ==
    IF r.ok
    THEN [printed |-> <<Response(TRUE, "deepface", r.val, "none", "none")>>,
          next |-> "fallback", warning |-> "none"]
    ELSE [printed |-> <<>>, next |-> "fallback", warning |-> r.err]

\* main(), the try block around the primary engine: a result is printed and
\* main returns; an exception becomes warning_message and main goes on
MainPrimaryBlock(r) ==
    IF r.ok
    THEN [printed |-> <<Response(TRUE, "deepface", r.val, "none", "none")>>,
          next |-> "done", warning |-> "none"]
    ELSE [printed |-> <<>>, next |-> "fallback", warning |-> r.err]

PrimaryVerify ==
    /\ program = "actual_deepface"
    /\ pc = "primary"
    /\ \E r \in PrimaryOutcomes :
          LET block == MainPrimaryBlock(r)
          IN /\ trace' = [trace EXCEPT
                    !.primaryCalls = @ + 1,
                    !.primaryOutcome = IF r.ok THEN "ok" ELSE r.err,
                    !.refVariant = IF r.ok THEN "Facenet" ELSE @,
                    !.capVariant = IF r.ok THEN "Facenet" ELSE @]
             /\ responses' = responses \o block.printed
             /\ pc' = block.next
             /\ warning_message' = block.warning
    /\ UNCHANGED <<program, encoderVars, analysisVars, libraryVars, env, DEEPFACE_AVAILABLE, FALLBACK_READY,
                   request>>

\* a fallback that compares the kept primary-variant embedding of the
\* registered image instead of encoding the image again
VerifyFacesReusingPrimaryReference(loaded, registered, captured, seed) ==
    IF ~loaded THEN Raise("fallback could not be loaded")
    ELSE LET kept == <<Scale, 0, 0, 0, 0, 0>>
             comparison == CompareFacesSimple(kept, captured, FallbackTolerance, seed)
         IN IF ~comparison.ok THEN Raise(comparison.err)
            ELSE Ok([comparison |-> comparison.val,
                     ref |-> "Facenet", cap |-> "opencv-simple"])

\* verify_faces_with_simple_fallback: the registered image is encoded by the
\* fallback's encode_face and compared with the captured image, which
\* compare_faces_simple encodes; ref and cap name the encoder of each operand
VerifyFacesWithSimpleFallback(loaded, registered, captured, seed) ==
    IF ~loaded THEN Raise("fallback could not be loaded")
    ELSE LET known == SimpleEncodeFace(registered, seed)
         IN IF ~known.ok THEN Raise(known.err)
            ELSE LET comparison == CompareFacesSimple(known.val, captured,
                                                      FallbackTolerance, seed)
                 IN IF ~comparison.ok THEN Raise(comparison.err)
                    ELSE Ok([comparison |-> comparison.val,
                             ref |-> "opencv-simple", cap |-> "opencv-simple"])

\* verify_faces_with_simple_fallback on every request, computed once
SimpleFallbackTable ==
    [loaded \in BOOLEAN |-> [registered \in VerifyPayloads |->
        [captured \in VerifyPayloads |-> [seed \in Seeds |->
            VerifyFacesWithSimpleFallback(loaded, registered, captured, seed)]]]]

\* a fallback block without its except clause: the exception leaves main
MainFallbackBlockUnhandled(r, warning) ==
    IF r.ok
    THEN [printed |-> <<Response(TRUE, "opencv_fallback", r.val.comparison,
                                 "none", warning)>>,
          uncaught |-> FALSE]
    ELSE [printed |-> <<>>, uncaught |-> TRUE]

\* main(), the try block around the fallback: the result or the error is
\* printed, nothing is raised further
MainFallbackBlock(r, warning) ==
    IF r.ok
    THEN [printed |-> <<Response(TRUE, "opencv_fallback", r.val.comparison,
                                 "none", warning)>>,
          uncaught |-> FALSE]
    ELSE [printed |-> <<Response(FALSE, "none", NoResult, r.err, "none")>>,
          uncaught |-> FALSE]

FallbackVerify ==
    /\ program = "actual_deepface"
    /\ pc = "fallback"
    /\ LET loaded == EnsureFallbackLoaded(FALLBACK_READY)
           r == SimpleFallbackTable[loaded][request.registered_image]
                                   [request.captured_image][env.seed]
           block == MainFallbackBlock(r, warning_message)
       IN /\ FALLBACK_READY' = loaded
          /\ trace' = [trace EXCEPT
                 !.fallbackCalls = @ + 1,
                 !.loadAttempts = IF FALLBACK_READY THEN @ ELSE @ + 1,
                 !.fallbackOutcome = IF r.ok THEN "ok" ELSE r.err,
                 !.refVariant = IF r.ok THEN r.val.ref ELSE @,
                 !.capVariant = IF r.ok THEN r.val.cap ELSE @,
                 !.uncaught = block.uncaught]
          /\ responses' = responses \o block.printed
    /\ pc' = "done"
    /\ UNCHANGED <<program, encoderVars, analysisVars, libraryVars, env, DEEPFACE_AVAILABLE, request,
                   warning_message>>

VerifyNext ==
    \/ ImportModule
    \/ \E req \in Requests : ReadRequest(req)
    \/ PrimaryVerify
    \/ FallbackVerify

(***************************************************************************)
(* face_analysis_system.py, class FaceAnalysisSystem                       *)
(***************************************************************************)
MaxFaces == 3
MaxClock == 1

\* the threshold compare_faces and generate_comparison_matrix apply
MatchThreshold == 600
\* the modulus of the face_id suffix
FaceIdModulus == 10000

\* the vectorize_face and analyze_image calls of a caller: a named face,
\* unnamed faces, an image without a face, and a face with so few supporting
\* neighbours that only a permissive detector pass reports it
AnalysisCalls ==
    {[image_data |-> Payload(ImgA, FALSE), person_name |-> "Ann"],
     [image_data |-> Payload(ImgB, FALSE), person_name |-> "None"],
     [image_data |-> Payload(ImgD, FALSE), person_name |-> "None"],
     [image_data |-> Payload(ImgN, FALSE), person_name |-> "None"],
     [image_data |->
          Payload([id |-> "W", cands |-> << Region(60, 4, <<90, 160, 120>>) >>], FALSE),
      person_name |-> "None"]}

AnalysisPayloads == {c.image_data : c \in AnalysisCalls}

\* generate_face_encoding on the images a caller passes, computed once
ServiceEncodings == [p \in AnalysisPayloads |-> GenerateFaceEncoding(p)]

\* the encodings a FaceAnalysisSystem can hold, and calculate_face_distance
\* on them, computed once
AnalysisEncodings ==
    {ServiceEncodings[p].val :
        p \in {q \in AnalysisPayloads : ServiceEncodings[q].ok}}

FaceDistanceTable ==
    [enc1 \in AnalysisEncodings |->
        [enc2 \in AnalysisEncodings |-> CalculateFaceDistance(enc1, enc2)]]

FaceDistance(enc1, enc2) == FaceDistanceTable[enc1][enc2]

\* a Python dict as the sequence of its items in insertion order
DictKeys(d) == [i \in 1..Len(d) |-> d[i].key]

DictHas(d, k) == \E i \in 1..Len(d) : d[i].key = k

DictGet(d, k) == d[CHOOSE i \in 1..Len(d) : d[i].key = k].val

\* d[k] = v: a present key keeps its position, a new key goes last
DictPut(d, k, v) ==
    IF DictHas(d, k)
    THEN [i \in 1..Len(d) |-> IF d[i].key = k THEN [key |-> k, val |-> v] ELSE d[i]]
    ELSE Append(d, [key |-> k, val |-> v])

\* hash(image_data) of a str: keyed by the process's hash seed
StrHash(seed, payload) ==
    PyHash(seed, IF payload.img.cands = <<>> THEN <<>>
                 ELSE payload.img.cands[1].feat)

\* f"face_{int(time.time() * 1000)}_{hash(image_data) % 10000}"
FaceId(ms, seed, payload) == <<ms, StrHash(seed, payload) % FaceIdModulus>>

UnknownFaceId == <<0 - 1, 0>>

\* person_name or f"Person_{face_id}"
PersonName(person_name, face_id) ==
    IF person_name = "None" THEN [label |-> "Person_", id |-> face_id]
    ELSE [label |-> person_name, id |-> UnknownFaceId]

\* a vectorize_face that stores the encoding and returns without storing the
\* metadata
VectorizeFaceResultWithoutMetadata(payload, person_name) ==
    LET face_encoding == ServiceEncodings[payload]
        face_id == FaceId(clock, env.seed, payload)
    IN IF ~face_encoding.ok
       THEN [face_encodings |-> face_encodings, face_metadata |-> face_metadata,
             result |-> [success |-> FALSE, error |-> face_encoding.err]]
       ELSE [face_encodings |-> DictPut(face_encodings, face_id, face_encoding.val),
             face_metadata |-> face_metadata,
             result |-> [success |-> TRUE, face_id |-> face_id,
                         person_name |-> PersonName(person_name, face_id),
                         encoding_dimension |-> Len(face_encoding.val)]]

\* vectorize_face(image_data, person_name): what it returns and what it
\* leaves in self.face_encodings and self.face_metadata
VectorizeFaceResult(payload, person_name) ==
    LET face_encoding == ServiceEncodings[payload]
        face_id == FaceId(clock, env.seed, payload)
    IN IF ~face_encoding.ok
       THEN [face_encodings |-> face_encodings, face_metadata |-> face_metadata,
             result |-> [success |-> FALSE, error |-> face_encoding.err]]
       ELSE [face_encodings |-> DictPut(face_encodings, face_id, face_encoding.val),
             face_metadata |->
                 DictPut(face_metadata, face_id,
                         [person_name |-> PersonName(person_name, face_id),
                          timestamp |-> clock,
                          encoding_dimension |-> Len(face_encoding.val),
                          image_data |-> payload.img.id]),
             result |-> [success |-> TRUE, face_id |-> face_id,
                         person_name |-> PersonName(person_name, face_id),
                         encoding_dimension |-> Len(face_encoding.val)]]

\* vectorize_face(image_data, person_name); the store holds MaxFaces at most
VectorizeFace(payload, person_name) ==
    /\ program = "face_analysis_system"
    /\ \E done \in {VectorizeFaceResult(payload, person_name)} :
          /\ Len(done.face_encodings) <= MaxFaces
          /\ face_encodings' = done.face_encodings
          /\ face_metadata' = done.face_metadata
          /\ ret' = [op |-> "vectorize"] @@ done.result
    /\ UNCHANGED <<program, encoderVars, verifyVars, libraryVars, threads, comparison_matrix, clock>>

\* max(0, (1 - distance) * 100), in thousandths of a percent
Similarity(distance) ==
    IF distance > Scale THEN 0 ELSE (Scale - distance) * 100

\* 'high' if distance < 0.4 else 'medium' if distance < 0.6 else 'low'
MatchConfidence(distance) ==
    IF distance < 400 THEN "high"
    ELSE IF distance < MatchThreshold THEN "medium" ELSE "low"

\* compare_faces(face_id1, face_id2)
AnalysisCompareFaces(face_id1, face_id2) ==
    /\ program = "face_analysis_system"
    /\ ret' =
         IF ~DictHas(face_encodings, face_id1) \/ ~DictHas(face_encodings, face_id2)
         THEN [op |-> "compare", has_success |-> FALSE, success |-> FALSE,
               error |-> "Face ID not found"]
         ELSE LET encoding1 == DictGet(face_encodings, face_id1)
                  encoding2 == DictGet(face_encodings, face_id2)
                  distance == FaceDistance(encoding1, encoding2)
              IN IF ~distance.ok \/ ~DictHas(face_metadata, face_id1)
                    \/ ~DictHas(face_metadata, face_id2)
                 THEN [op |-> "compare", has_success |-> TRUE, success |-> FALSE,
                       error |-> "Face comparison failed"]
                 ELSE [op |-> "compare", has_success |-> TRUE, success |-> TRUE,
                       face_id1 |-> face_id1, face_id2 |-> face_id2,
                       person1 |-> DictGet(face_metadata, face_id1).person_name,
                       person2 |-> DictGet(face_metadata, face_id2).person_name,
                       distance |-> distance.val,
                       is_match |-> distance.val <= MatchThreshold,
                       similarity_percentage |-> Similarity(distance.val),
                       match_confidence |-> MatchConfidence(distance.val)]
    /\ UNCHANGED <<program, encoderVars, verifyVars, libraryVars, threads, face_encodings, face_metadata,
                   comparison_matrix, clock>>

\* list.sort(key=distance): stable insertion of one pair into a sorted list;
\* reverse=True sorts descending and keeps equal pairs in their original order
RECURSIVE InsertPair(_, _, _)
InsertPair(pair, sorted, reverse) ==
    IF sorted = <<>> THEN <<pair>>
    ELSE IF (IF reverse THEN pair.distance > Head(sorted).distance
             ELSE pair.distance < Head(sorted).distance)
         THEN <<pair>> \o sorted
         ELSE <<Head(sorted)>> \o InsertPair(pair, Tail(sorted), reverse)

RECURSIVE SortPairs(_, _)
SortPairs(pairs, reverse) ==
    IF pairs = <<>> THEN <<>>
    ELSE InsertPair(pairs[Len(pairs)],
                    SortPairs(SubSeq(pairs, 1, Len(pairs) - 1), reverse), reverse)

\* lst[:5]
Top5(lst) == SubSeq(lst, 1, Min(5, Len(lst)))

\* the rows of a matrix, flattened
RECURSIVE Flatten(_)
Flatten(m) == IF m = <<>> THEN <<>> ELSE Head(m) \o Flatten(Tail(m))

RECURSIVE MinSeq(_)
MinSeq(v) ==
    IF Len(v) = 1 THEN v[1] ELSE Min(Head(v), MinSeq(Tail(v)))

RECURSIVE MaxSeq(_)
MaxSeq(v) ==
    IF Len(v) = 1 THEN v[1]
    ELSE LET m == MaxSeq(Tail(v)) IN IF Head(v) >= m THEN Head(v) ELSE m

\* the 'statistics' entry: min, mean and std run over distance_matrix > 0,
\* and np.min of an empty selection raises
Statistics(distance_matrix) ==
    LET all == Flatten(distance_matrix)
        positive == SelectSeq(all, LAMBDA d : d > 0)
    IN IF positive = <<>> THEN Raise("zero-size array to reduction operation")
       ELSE LET mean == SumSeq(positive) \div Len(positive)
                dev == [i \in 1..Len(positive) |-> positive[i] - mean]
            IN Ok([min_distance |-> MinSeq(positive),
                   max_distance |-> MaxSeq(all),
                   mean_distance |-> mean,
                   std_distance |-> ISqrt(SumSq(dev) \div Len(positive))])

\* the pairwise loop of generate_comparison_matrix; the diagonal is written
\* without calling calculate_face_distance
DistanceMatrix(encodings) ==
    [i \in 1..Len(encodings) |->
        [j \in 1..Len(encodings) |->
            IF i = j THEN Ok(0)
            ELSE FaceDistance(encodings[i].val, encodings[j].val)]]

\* the pairs (i, j), i < j, in loop order
PairIndices(n) ==
    LET ordered == [k \in 1..(n * n) |-> <<((k - 1) \div n) + 1, ((k - 1) % n) + 1>>]
    IN SelectSeq(ordered, LAMBDA p : p[1] < p[2])

\* if n_faces < 2 (mutant: a cohort of one is accepted)
TooFewFacesBelowOne(n_faces) == n_faces < 1

\* if n_faces < 2
TooFewFaces(n_faces) == n_faces < 2

\* generate_comparison_matrix(): what it returns and what it leaves in
\* self.comparison_matrix, for the items of self.face_encodings it reads
ComparisonMatrixResult(encodings) ==
    LET face_ids == DictKeys(encodings)
        n_faces == Len(face_ids)
        computed == DistanceMatrix(encodings)
        raised == \/ \E i, j \in 1..n_faces : ~computed[i][j].ok
                  \/ \E i \in 1..n_faces : ~DictHas(face_metadata, face_ids[i])
        distance_matrix == [i \in 1..n_faces |->
                               [j \in 1..n_faces |-> computed[i][j].val]]
        similarity_matrix == [i \in 1..n_faces |->
                               [j \in 1..n_faces |->
                                   IF i = j THEN 100 * Scale
                                   ELSE Similarity(distance_matrix[i][j])]]
        person_names == [i \in 1..n_faces |->
                            DictGet(face_metadata, face_ids[i]).person_name]
        indices == PairIndices(n_faces)
        pairs == [k \in 1..Len(indices) |->
                     LET i == indices[k][1]
                         j == indices[k][2]
                     IN [person1 |-> person_names[i], person2 |-> person_names[j],
                         distance |-> distance_matrix[i][j],
                         similarity |-> similarity_matrix[i][j]]]
        closest_pairs ==
            SortPairs(SelectSeq(pairs, LAMBDA p : p.distance < MatchThreshold), FALSE)
        most_different_pairs ==
            SortPairs(SelectSeq(pairs, LAMBDA p : ~(p.distance < MatchThreshold)), TRUE)
        statistics == Statistics(distance_matrix)
    IN IF TooFewFaces(n_faces)
       THEN [comparison_matrix |-> comparison_matrix,
             result |-> [success |-> FALSE, error |-> "Need at least 2 faces"]]
       ELSE IF raised
       THEN [comparison_matrix |-> comparison_matrix,
             result |-> [success |-> FALSE,
                         error |-> "Comparison matrix generation failed"]]
       ELSE [comparison_matrix |->
                 [stored |-> TRUE, distance_matrix |-> distance_matrix,
                  similarity_matrix |-> similarity_matrix,
                  face_ids |-> face_ids, person_names |-> person_names],
             result |->
                 IF ~statistics.ok
                 THEN [success |-> FALSE, error |-> statistics.err]
                 ELSE [success |-> TRUE,
                       num_faces |-> n_faces,
                       distance_matrix |-> distance_matrix,
                       similarity_matrix |-> similarity_matrix,
                       person_names |-> person_names,
                       closest_pairs |-> Top5(closest_pairs),
                       most_different_pairs |-> Top5(most_different_pairs),
                       statistics |-> statistics.val]]

\* generate_comparison_matrix()
GenerateComparisonMatrix ==
    /\ program = "face_analysis_system"
    /\ \E built \in {ComparisonMatrixResult(face_encodings)} :
          /\ comparison_matrix' = built.comparison_matrix
          /\ ret' = [op |-> "matrix"] @@ built.result
    /\ UNCHANGED <<program, encoderVars, verifyVars, libraryVars, threads, face_encodings,
                   face_metadata, clock>>

\* _generate_system_recommendations(matrix_result), without its three fixed lines
SystemRecommendations(matrix_result) ==
    [potential_matches |->
         SelectSeq(matrix_result.closest_pairs, LAMBDA p : p.distance < MatchThreshold),
     most_different |-> SubSeq(matrix_result.most_different_pairs, 1, 1)]

\* generate_analysis_report()
GenerateAnalysisReport ==
    /\ program = "face_analysis_system"
    /\ IF face_encodings = <<>>
       THEN /\ ret' = [op |-> "report", success |-> FALSE,
                       error |-> "No faces have been processed yet"]
            /\ UNCHANGED comparison_matrix
       ELSE \E built \in {ComparisonMatrixResult(face_encodings)} :
            LET matrix_result == built.result
            IN /\ comparison_matrix' = built.comparison_matrix
               /\ ret' = IF ~matrix_result.success
                         THEN [op |-> "report"] @@ matrix_result
                         ELSE [op |-> "report", success |-> TRUE,
                               total_faces_processed |-> Len(face_encodings),
                               unique_persons |->
                                   Cardinality({face_metadata[i].val.person_name :
                                                   i \in 1..Len(face_metadata)}),
                               analysis_timestamp |-> clock,
                               face_metadata |-> face_metadata,
                               comparison_matrix |-> matrix_result,
                               recommendations |-> SystemRecommendations(matrix_result)]
    /\ UNCHANGED <<program, encoderVars, verifyVars, libraryVars, threads, face_encodings,
                   face_metadata, clock>>

\* the wall clock moves on between two calls
Tick ==
    /\ program \in {"face_analysis_system", "face_analysis_system_threads"}
    /\ clock < MaxClock
    /\ clock' = clock + 1
    /\ UNCHANGED <<program, encoderVars, verifyVars, libraryVars, threads, face_encodings, face_metadata,
                   comparison_matrix, ret>>

\* the face ids a caller may pass: the ones it was given, and one it was not
CallerFaceIds == {face_encodings[i].key : i \in 1..Len(face_encodings)} \cup {UnknownFaceId}

(***************************************************************************)
(* face_analysis_system.py, one FaceAnalysisSystem used by two threads: one *)
(* enrolls, one builds the matrix.  The class takes no lock; a thread      *)
(* switch can fall between any two statements.  Statements that touch only *)
(* locals are joined to the next statement that touches self.              *)
(***************************************************************************)
NoThreads == [enroll |-> [pc |-> "idle"], build |-> [pc |-> "idle"]]

\* vectorize_face up to and including self.face_encodings[face_id] = ...
EnrollStoreEncoding(payload, person_name) ==
    /\ program = "face_analysis_system_threads"
    /\ threads.enroll.pc = "idle"
    /\ LET face_encoding == ServiceEncodings[payload]
           face_id == FaceId(clock, env.seed, payload)
       IN IF ~face_encoding.ok
          THEN /\ threads' = [threads EXCEPT !.enroll =
                      [pc |-> "idle", success |-> FALSE, error |-> face_encoding.err]]
               /\ UNCHANGED face_encodings
          ELSE /\ Len(face_encodings) < MaxFaces \/ DictHas(face_encodings, face_id)
               /\ face_encodings' = DictPut(face_encodings, face_id, face_encoding.val)
               /\ threads' = [threads EXCEPT !.enroll =
                      [pc |-> "encoding_stored", face_id |-> face_id,
                       person_name |-> PersonName(person_name, face_id),
                       encoding_dimension |-> Len(face_encoding.val),
                       image_data |-> payload.img.id]]
    /\ UNCHANGED <<program, encoderVars, verifyVars, libraryVars, face_metadata,
                   comparison_matrix, clock, ret>>

\* vectorize_face from self.face_metadata[face_id] = ... to its return
EnrollStoreMetadata ==
    /\ program = "face_analysis_system_threads"
    /\ threads.enroll.pc = "encoding_stored"
    /\ face_metadata' = DictPut(face_metadata, threads.enroll.face_id,
           [person_name |-> threads.enroll.person_name,
            timestamp |-> clock,
            encoding_dimension |-> threads.enroll.encoding_dimension,
            image_data |-> threads.enroll.image_data])
    /\ threads' = [threads EXCEPT !.enroll =
           [pc |-> "idle", success |-> TRUE, face_id |-> threads.enroll.face_id]]
    /\ UNCHANGED <<program, encoderVars, verifyVars, libraryVars, face_encodings,
                   comparison_matrix, clock, ret>>

\* generate_comparison_matrix: face_ids = list(self.face_encodings.keys()) and
\* the test of n_faces
BuildReadKeys ==
    /\ program = "face_analysis_system_threads"
    /\ threads.build.pc = "idle"
    /\ IF TooFewFaces(Len(face_encodings))
       THEN /\ ret' = [op |-> "matrix"] @@ ComparisonMatrixResult(face_encodings).result
            /\ UNCHANGED threads
       ELSE /\ threads' = [threads EXCEPT !.build =
                   [pc |-> "keys_read", face_ids |-> DictKeys(face_encodings)]]
            /\ UNCHANGED ret
    /\ UNCHANGED <<program, encoderVars, verifyVars, libraryVars, face_encodings,
                   face_metadata, comparison_matrix, clock>>

\* generate_comparison_matrix from its distance loop on: it reads
\* self.face_encodings and self.face_metadata at the ids it listed; an id
\* without metadata is a KeyError
BuildFinish ==
    /\ program = "face_analysis_system_threads"
    /\ threads.build.pc = "keys_read"
    /\ LET face_ids == threads.build.face_ids
           encodings == [i \in 1..Len(face_ids) |->
                            [key |-> face_ids[i],
                             val |-> DictGet(face_encodings, face_ids[i])]]
       IN \E built \in {ComparisonMatrixResult(encodings)} :
             /\ comparison_matrix' = built.comparison_matrix
             /\ ret' = [op |-> "matrix"] @@ built.result
    /\ threads' = [threads EXCEPT !.build = [pc |-> "idle"]]
    /\ UNCHANGED <<program, encoderVars, verifyVars, libraryVars, face_encodings,
                   face_metadata, clock>>

ThreadsNext ==
    \/ \E c \in AnalysisCalls : EnrollStoreEncoding(c.image_data, c.person_name)
    \/ EnrollStoreMetadata
    \/ BuildReadKeys
    \/ BuildFinish
    \/ Tick

(***************************************************************************)
(* server/face_recognition_service.py, calculate_face_distance called on   *)
(* encodings of the caller's choice                                        *)
(***************************************************************************)
\* the longest encoding a caller passes
MaxDim == 2

\* component values: their differences give raw distances on both sides of
\* the calibration steps; 1 is the smallest difference two encodings can have
Components == {0, 1, 300, 700}

DistanceInputs == UNION {[1..n -> Components] : n \in 1..MaxDim}

NoCall == [fn |-> "none"]

\* calculate_face_distance(encoding1, encoding2); the function keeps nothing
\* between two calls: each call is one run
CallCalculateFaceDistance(encoding1, encoding2) ==
    /\ program = "calculate_face_distance"
    /\ call = NoCall
    /\ call' = [fn |-> "calculate_face_distance", encoding1 |-> encoding1,
                encoding2 |-> encoding2,
                result |-> CalculateFaceDistance(encoding1, encoding2)]
    /\ UNCHANGED <<program, encoderVars, verifyVars, analysisVars>>

DistanceNext ==
    \E encoding1 \in DistanceInputs, encoding2 \in DistanceInputs :
        CallCalculateFaceDistance(encoding1, encoding2)

(***************************************************************************)
(* server/liveness_detection.py and the liveness methods of                *)
(* face_analysis_system.py.  A frame is a row of BGR pixels with the       *)
(* regions the face cascade can report in it.  Scores are in thousandths   *)
(* of a point.                                                             *)
(***************************************************************************)
Grey(g) == <<g, g, g>>

Frame(pixels, cands) ==
    [decodes |-> TRUE, pixels |-> pixels, cands |-> cands, side |-> 300]

\* frames with a face: in front of the camera, the same having moved, the
\* same having hardly moved, a dim one with a small face, and a face shown on
\* a saturated screen
FaceFrames ==
    {Frame(<<Grey(60), Grey(200), Grey(90), Grey(230)>>, <<Region(120, 12, <<>>)>>),
     Frame(<<Grey(70), Grey(190), Grey(100), Grey(220)>>, <<Region(120, 12, <<>>)>>),
     Frame(<<Grey(62), Grey(202), Grey(92), Grey(232)>>, <<Region(120, 12, <<>>)>>),
     Frame(<<Grey(40), Grey(75), Grey(50), Grey(85)>>, <<Region(100, 6, <<>>)>>),
     Frame(<<<<0, 0, 250>>, <<0, 0, 120>>, <<0, 0, 200>>, <<20, 20, 220>>>>,
           <<Region(120, 12, <<>>)>>)}

\* uniform fields: every pixel has the one colour, grey or not, and the
\* cascade reports nothing
FlatFrames ==
    {Frame(<<c, c, c, c>>, <<>>) :
        c \in {Grey(0), Grey(30), Grey(70), Grey(128), Grey(190), Grey(240),
               <<0, 0, 255>>, <<60, 60, 200>>, <<100, 150, 200>>}}

CorruptFrame == [decodes |-> FALSE, pixels |-> <<>>, cands |-> <<>>, side |-> 0]

Frames == FaceFrames \cup FlatFrames \cup {CorruptFrame}

\* cv2.cvtColor(image, COLOR_BGR2GRAY), one value per pixel
GrayOf(frame) ==
    [i \in 1..Len(frame.pixels) |->
        (114 * frame.pixels[i][1] + 587 * frame.pixels[i][2]
            + 299 * frame.pixels[i][3] + 500) \div 1000]

\* the S and the V channel of cv2.cvtColor(image, COLOR_BGR2HSV)
ValueOf(frame) ==
    [i \in 1..Len(frame.pixels) |->
        MaxSeq(frame.pixels[i])]

SaturationOf(frame) ==
    [i \in 1..Len(frame.pixels) |->
        LET v == MaxSeq(frame.pixels[i])
            m == MinSeq(frame.pixels[i])
        IN IF v = 0 THEN 0 ELSE ((v - m) * 255 + v \div 2) \div v]

\* np.mean(v), in hundredths
MeanOf(v) == (SumSeq(v) * PixelUnit) \div Len(v)

\* np.var(v), the square of np.std(v), in hundredths
VarianceOf(v) ==
    ((Len(v) * SumSq(v) - SumSeq(v) * SumSeq(v)) * PixelUnit) \div (Len(v) * Len(v))

\* cv2.Laplacian(gray, CV_64F) of a row: the borders are mirrored
LaplacianOf(gray) ==
    [i \in 1..Len(gray) |->
        LET left == IF i = 1 THEN gray[2] ELSE gray[i - 1]
            right == IF i = Len(gray) THEN gray[Len(gray) - 1] ELSE gray[i + 1]
        IN left + right - 2 * gray[i]]

\* calculate_quality_score(metrics): four times 25, 15 or 5 points; contrast
\* is held as its square
CalculateQualityScoreIgnoringContrast(metrics) ==
    (IF 80 * PixelUnit <= metrics.brightness /\ metrics.brightness <= 180 * PixelUnit
     THEN 25
     ELSE IF 60 * PixelUnit <= metrics.brightness
             /\ metrics.brightness <= 200 * PixelUnit THEN 15 ELSE 5)
    + 25
    + (IF metrics.sharpness >= 200 * PixelUnit THEN 25
       ELSE IF metrics.sharpness >= 100 * PixelUnit THEN 15 ELSE 5)
    + (IF metrics.face_size >= 15 * PixelUnit THEN 25
       ELSE IF metrics.face_size >= 10 * PixelUnit THEN 15 ELSE 5)

CalculateQualityScore(metrics) ==
    (IF 80 * PixelUnit <= metrics.brightness /\ metrics.brightness <= 180 * PixelUnit
     THEN 25
     ELSE IF 60 * PixelUnit <= metrics.brightness
             /\ metrics.brightness <= 200 * PixelUnit THEN 15 ELSE 5)
    + (IF metrics.contrast >= 40 * 40 * PixelUnit THEN 25
       ELSE IF metrics.contrast >= 25 * 25 * PixelUnit THEN 15 ELSE 5)
    + (IF metrics.sharpness >= 200 * PixelUnit THEN 25
       ELSE IF metrics.sharpness >= 100 * PixelUnit THEN 15 ELSE 5)
    + (IF metrics.face_size >= 15 * PixelUnit THEN 25
       ELSE IF metrics.face_size >= 10 * PixelUnit THEN 15 ELSE 5)

\* the quality floor of analyze_face_quality and the pass mark of
\* comprehensive_liveness_check
GoodQuality == 60
LiveScore == 70

\* analyze_face_quality(image); noise_level and symmetry do not enter the score
AnalyzeFaceQuality(frame) ==
    LET gray == GrayOf(frame)
        faces == DetectMultiScale(frame, 4, 0)
        metrics ==
            [brightness |-> MeanOf(gray),
             contrast |-> VarianceOf(gray),
             sharpness |-> VarianceOf(LaplacianOf(gray)),
             face_size |->
                 IF faces = <<>> THEN 0
                 ELSE (LargestFace(faces).size * LargestFace(faces).size
                          * 100 * PixelUnit) \div (frame.side * frame.side)]
    IN [score |-> CalculateQualityScore(metrics), metrics |-> metrics,
        is_good_quality |-> CalculateQualityScore(metrics) >= GoodQuality]

\* detect_screen_reflection(image); confidence is a percentage in hundredths
DetectScreenReflection(frame) ==
    LET saturation == SaturationOf(frame)
        high_sat_pixels == Len(SelectSeq(saturation, LAMBDA x : x > 200))
        saturation_ratio == (high_sat_pixels * PixelUnit) \div Len(saturation)
        is_screen_reflection ==
            \/ saturation_ratio > 30
            \/ VarianceOf(ValueOf(frame)) < 20 * 20 * PixelUnit
    IN [is_screen_reflection |-> is_screen_reflection,
        saturation_ratio |-> saturation_ratio,
        confidence |-> IF is_screen_reflection THEN saturation_ratio * 100 ELSE 0]

\* what DeepFace.analyze does with a frame is not decided here: it is not
\* installed, it raises, or it estimates some age
DeepFaceOutcomes ==
    {[available |-> FALSE, raised |-> FALSE, age |-> 0],
     [available |-> TRUE, raised |-> TRUE, age |-> 0]}
        \cup {[available |-> TRUE, raised |-> FALSE, age |-> a] : a \in {3, 30, 150}}

\* analyze_age_and_human_verification(image)
AnalyzeAgeAndHumanVerification(deepface) ==
    IF ~deepface.available \/ deepface.raised
    THEN [is_human |-> TRUE, confidence |-> 0, error |-> TRUE]
    ELSE LET is_human == 5 <= deepface.age /\ deepface.age <= 100
         IN [is_human |-> is_human, confidence |-> IF is_human THEN 85 ELSE 30,
             error |-> FALSE]

\* detect_motion_consistency(frames), frames of one size
DetectMotionConsistency(frames) ==
    IF Len(frames) < 2 THEN [score |-> 0, has_motion |-> FALSE, motion_scores |-> <<>>]
    ELSE LET motion_scores ==
                 [i \in 1..(Len(frames) - 1) |->
                     MeanOf([k \in 1..Len(frames[i].pixels) |->
                                Abs(GrayOf(frames[i])[k] - GrayOf(frames[i + 1])[k])])]
             avg_motion == SumSeq(motion_scores) \div Len(motion_scores)
         IN [score |-> Min(100 * PixelUnit, avg_motion * 10),
             has_motion |-> avg_motion > 5 * PixelUnit,
             motion_scores |-> motion_scores]

\* detect_face_landmarks and detect_blink_ear: the eye landmarks are laid out
\* on the face box, which gives ear = 0.433 * h / w, in thousandths
DetectBlink(frame) ==
    LET faces == DetectMultiScale(frame, 4, 0)
        ear == IF faces = <<>> THEN 0
               ELSE (433 * LargestFace(faces).size) \div LargestFace(faces).size
    IN [ear |-> ear, is_blinking |-> faces # <<>> /\ ear < 250]

\* calculate_liveness_score(analysis_results), in hundredths of a point
CalculateLivenessScore(analysis_results) ==
    LET quality == analysis_results.quality.score * 25
        human == IF analysis_results.human.is_human THEN 25 * PixelUnit
                 ELSE IF analysis_results.human.confidence > 50 THEN 15 * PixelUnit
                 ELSE 0
        reflection ==
            IF ~analysis_results.reflection.is_screen_reflection THEN 20 * PixelUnit
            ELSE LET rest == 20 * PixelUnit
                                - analysis_results.reflection.confidence \div 5
                 IN IF rest > 0 THEN rest ELSE 0
        motion == IF analysis_results.motion.has_motion THEN 20 * PixelUnit
                  ELSE analysis_results.motion.score \div 5
        blink == IF analysis_results.blink.is_blinking THEN 10 * PixelUnit ELSE 0
        score == quality + human + reflection + motion + blink
    IN Min(100 * PixelUnit, IF score > 0 THEN score ELSE 0)

\* generate_liveness_recommendations(analysis_results)
GenerateLivenessRecommendations(analysis_results, liveness_score) ==
    (IF analysis_results.quality.score < 60 THEN <<"Improve image quality">> ELSE <<>>)
    \o (IF analysis_results.reflection.is_screen_reflection
        THEN <<"Avoid showing photos or screens">> ELSE <<>>)
    \o (IF ~analysis_results.human.is_human
        THEN <<"Face verification failed">> ELSE <<>>)
    \o (IF ~analysis_results.motion.has_motion
           /\ Len(analysis_results.motion.motion_scores) > 1
        THEN <<"Move slightly or blink">> ELSE <<>>)
    \o (IF liveness_score < LiveScore * PixelUnit
        THEN IF liveness_score < 40 * PixelUnit
             THEN <<"Liveness verification failed">>
             ELSE <<"Liveness verification needs improvement">>
        ELSE <<"Liveness verification passed!">>)

\* comprehensive_liveness_check(frames_data)
ComprehensiveLivenessCheck(frames_data, deepface) ==
    LET frames == SelectSeq(frames_data, LAMBDA f : f.decodes)
    IN IF frames_data = <<>>
       THEN [success |-> FALSE, error |-> "No frames provided for analysis"]
       ELSE IF frames = <<>>
       THEN [success |-> FALSE, error |-> "No valid frames could be processed"]
       ELSE LET analysis ==
                    [quality |-> AnalyzeFaceQuality(frames[1]),
                     reflection |-> DetectScreenReflection(frames[1]),
                     human |-> AnalyzeAgeAndHumanVerification(deepface),
                     motion |-> DetectMotionConsistency(frames),
                     blink |-> DetectBlink(frames[1])]
                liveness_score == CalculateLivenessScore(analysis)
            IN [success |-> TRUE,
                liveness_score |-> liveness_score,
                is_live |-> liveness_score >= LiveScore * PixelUnit,
                analysis |-> analysis,
                recommendations |->
                    GenerateLivenessRecommendations(analysis, liveness_score),
                frames_analyzed |-> Len(frames)]

\* 'is_live': is_live and liveness_score >= 60 (mutant: the score alone)
BasicIsLiveByScoreAlone(is_live, liveness_score) == liveness_score >= 60

\* 'is_live': is_live and liveness_score >= 60
BasicIsLive(is_live, liveness_score) == is_live /\ liveness_score >= 60

\* _basic_liveness_analysis(image_data)
BasicLivenessAnalysis(image_data) ==
    IF ~image_data.decodes
    THEN [is_live |-> FALSE, liveness_score |-> 0, confidence |-> "none",
          error |-> "Liveness analysis failed"]
    ELSE LET gray == GrayOf(image_data)
             lit == /\ 60 * PixelUnit <= MeanOf(gray)
                    /\ MeanOf(gray) <= 200 * PixelUnit
                    /\ VarianceOf(gray) > 20 * 20 * PixelUnit
             sharp == VarianceOf(LaplacianOf(gray)) > 50 * PixelUnit
             saturation == SaturationOf(image_data)
             high_sat_ratio ==
                 (Len(SelectSeq(saturation, LAMBDA x : x > 200)) * PixelUnit)
                     \div Len(saturation)
             liveness_score == 50 + (IF lit THEN 20 ELSE 0 - 20)
                                  + (IF sharp THEN 20 ELSE 0 - 20)
                                  + (IF high_sat_ratio < 30 THEN 10 ELSE 0 - 10)
         IN [is_live |-> BasicIsLive(lit /\ sharp, liveness_score),
             liveness_score |->
                 (IF liveness_score < 0 THEN 0 ELSE Min(100, liveness_score)) * PixelUnit,
             confidence |-> "low", method |-> "basic_analysis"]

\* detect_liveness(image_data, frames); when liveness_detection was not
\* imported the call raises NameError into the except clause
DetectLiveness(image_data, frames, imported, deepface) ==
    LET result == ComprehensiveLivenessCheck(<<image_data>> \o frames, deepface)
    IN IF ~imported \/ ~result.success THEN BasicLivenessAnalysis(image_data)
       ELSE [is_live |-> result.is_live,
             liveness_score |-> result.liveness_score,
             analysis |-> result.analysis,
             recommendations |-> result.recommendations,
             confidence |->
                 IF result.liveness_score >= LiveScore * PixelUnit THEN "high"
                 ELSE IF result.liveness_score >= 40 * PixelUnit THEN "medium"
                 ELSE "low"]

\* the most frames a caller sends in one request
MaxFrames == 2

\* sub-check outcomes handed to calculate_liveness_score directly
SubCheckOutcomes ==
    [quality : {[score |-> q] : q \in {0, 20, 60, 100}},
     human : {AnalyzeAgeAndHumanVerification(d) : d \in DeepFaceOutcomes},
     reflection : {[is_screen_reflection |-> FALSE, confidence |-> 0],
                   [is_screen_reflection |-> TRUE, confidence |-> 0],
                   [is_screen_reflection |-> TRUE, confidence |-> 50 * PixelUnit],
                   [is_screen_reflection |-> TRUE, confidence |-> 100 * PixelUnit]},
     motion : {[has_motion |-> FALSE, score |-> 0],
               [has_motion |-> FALSE, score |-> 30 * PixelUnit],
               [has_motion |-> TRUE, score |-> 100 * PixelUnit]},
     blink : {[is_blinking |-> b] : b \in BOOLEAN}]

\* the functions keep nothing between two calls: each call is one run
LivenessNext ==
    /\ program = "liveness_detection"
    /\ call = NoCall
    /\ \/ \E analysis_results \in SubCheckOutcomes :
             call' = [fn |-> "calculate_liveness_score",
                      analysis_results |-> analysis_results,
                      result |-> CalculateLivenessScore(analysis_results)]
       \/ \E n \in 0..MaxFrames : \E frames_data \in [1..n -> Frames] :
             \E deepface \in DeepFaceOutcomes :
                call' = [fn |-> "comprehensive_liveness_check",
                         frames_data |-> frames_data, deepface |-> deepface,
                         result |-> ComprehensiveLivenessCheck(frames_data, deepface)]
       \/ \E image_data \in Frames : \E n \in 0..(MaxFrames - 1) :
             \E frames \in [1..n -> Frames] :
                \E imported \in BOOLEAN, deepface \in DeepFaceOutcomes :
                   call' = [fn |-> "detect_liveness", image_data |-> image_data,
                            frames |-> frames, imported |-> imported,
                            deepface |-> deepface,
                            result |-> DetectLiveness(image_data, frames, imported,
                                                      deepface)]
    /\ UNCHANGED <<program, encoderVars, verifyVars, analysisVars>>

(***************************************************************************)
(* face_analysis_system.py, FaceAnalysisSystem.analyze_image and what it   *)
(* calls.  The picture is its face region: the cells of the region are the *)
(* pixels the quality and liveness measures run over.                      *)
(***************************************************************************)
\* the detectMultiScale calls of a locator, (minNeighbors, minSize) each, in
\* the order they are tried
AnalysisDetectParams == << <<5, 30>>, <<3, 20>> >>
SimpleDetectParams == << <<3, 30>>, <<5, 20>>, <<2, 15>> >>
SecureDetectParams == << <<6, 100>>, <<8, 80>> >>

\* faces = detectMultiScale(...); if len(faces) == 0: faces = detectMultiScale(...):
\* the passes that run, each with what it found
RECURSIVE DetectorPasses(_, _)
DetectorPasses(img, params) ==
    IF params = <<>> THEN <<>>
    ELSE LET faces == DetectMultiScale(img, Head(params)[1], Head(params)[2])
         IN << [minNeighbors |-> Head(params)[1], minSize |-> Head(params)[2],
                faces |-> faces] >>
            \o (IF faces # <<>> THEN <<>> ELSE DetectorPasses(img, Tail(params)))

\* _assess_face_quality(image, face_rect)
AssessFaceQuality(face) ==
    LET brightness == MeanOf(face.feat)
        contrast == VarianceOf(face.feat)
        sharpness == VarianceOf(LaplacianOf(face.feat))
    IN IF /\ sharpness > 200 * PixelUnit
          /\ 80 * PixelUnit <= brightness /\ brightness <= 180 * PixelUnit
          /\ contrast > 40 * 40 * PixelUnit
       THEN "excellent"
       ELSE IF /\ sharpness > 100 * PixelUnit
               /\ 60 * PixelUnit <= brightness /\ brightness <= 200 * PixelUnit
               /\ contrast > 25 * 25 * PixelUnit
       THEN "good"
       ELSE IF sharpness > 50 * PixelUnit /\ contrast > 15 * 15 * PixelUnit
       THEN "fair"
       ELSE "poor"

\* detect_face(image_data); a payload that does not decode raises into the
\* except clause
DetectFace(payload) ==
    IF payload.corrupt
    THEN [face_detected |-> FALSE, num_faces |-> 0, failed |-> TRUE,
          quality_level |-> "none", passes |-> <<>>]
    ELSE LET passes == DetectorPasses(payload.img, AnalysisDetectParams)
             faces == passes[Len(passes)].faces
         IN [face_detected |-> faces # <<>>, num_faces |-> Len(faces),
             failed |-> FALSE,
             quality_level |->
                 IF faces # <<>> THEN AssessFaceQuality(LargestFace(faces))
                 ELSE "none",
             passes |-> passes]

\* the picture as liveness_detection decodes it
FrameOf(payload) ==
    Frame([i \in 1..Len(payload.img.cands[1].feat) |->
              Grey(payload.img.cands[1].feat[i])],
          payload.img.cands)

\* detect_liveness(image_data) on the pictures with a face: what it can
\* return, the liveness module imported or not and whatever DeepFace does
LivenessDetections ==
    [payload \in {q \in AnalysisPayloads : DetectFace(q).face_detected} |->
        {[is_live |-> r.is_live, liveness_score |-> r.liveness_score,
          confidence |-> r.confidence] :
            r \in {DetectLiveness(FrameOf(payload), <<>>, imported, deepface) :
                       imported \in BOOLEAN, deepface \in DeepFaceOutcomes}}]

\* _generate_quality_recommendations(issues): each test is list membership
GenerateQualityRecommendations(issues) ==
    LET Has(issue) == \E i \in 1..Len(issues) : issues[i] = issue
        recommendations ==
            (IF Has("No face detected")
             THEN <<"Ensure face is clearly visible and well-lit">> ELSE <<>>)
            \o (IF Has("Poor face quality detected")
                THEN <<"Improve lighting and hold camera steady">> ELSE <<>>)
            \o (IF Has("Liveness verification failed")
                THEN <<"Use live camera feed, avoid photos of photos">> ELSE <<>>)
            \o (IF Has("Face vectorization failed")
                THEN <<"Ensure face is clearly visible and try again">> ELSE <<>>)
    IN IF recommendations = <<>>
       THEN <<"Image quality is good for face recognition">>
       ELSE recommendations

\* _assess_overall_quality(face_detection, liveness_detection, vectorization),
\* the score in hundredths of a point.  generate_face_encoding returns more
\* than 100 components, so the low-dimension issue is never raised.
AssessOverallQuality(face_detection, liveness_detection, vectorization) ==
    LET detection ==
            IF ~face_detection.face_detected THEN 0
            ELSE 30 * PixelUnit
                 + (IF face_detection.quality_level = "excellent" THEN 10 * PixelUnit
                    ELSE IF face_detection.quality_level = "good" THEN 5 * PixelUnit
                    ELSE 0)
        liveness ==
            IF liveness_detection.is_live THEN 30 * PixelUnit
            ELSE (liveness_detection.liveness_score * 3) \div 10
        quality_score ==
            detection + liveness + (IF vectorization.success THEN 40 * PixelUnit ELSE 0)
        issues ==
            (IF ~face_detection.face_detected THEN <<"No face detected">>
             ELSE IF face_detection.quality_level = "poor"
             THEN <<"Poor face quality detected">> ELSE <<>>)
            \o (IF liveness_detection.is_live THEN <<>>
                ELSE <<"Liveness verification failed or uncertain">>)
            \o (IF vectorization.success THEN <<>>
                ELSE <<"Face vectorization failed">>)
    IN [overall_quality |->
            IF quality_score >= 90 * PixelUnit THEN "excellent"
            ELSE IF quality_score >= 70 * PixelUnit THEN "good"
            ELSE IF quality_score >= 50 * PixelUnit THEN "fair"
            ELSE "poor",
        quality_score |-> Min(100 * PixelUnit, quality_score),
        issues |-> issues,
        recommendations |-> GenerateQualityRecommendations(issues)]

\* an analyze_image that returns early also for a picture the liveness check
\* does not pass
GoesOnToVectorizationWhenLive(face_detection, liveness_detection) ==
    face_detection.face_detected /\ liveness_detection.is_live

\* if not face_detection['face_detected']: return.  Otherwise analyze_image
\* goes on to liveness and vectorization, whatever detect_liveness returns
GoesOnToVectorization(face_detection, liveness_detection) ==
    face_detection.face_detected

\* analyze_image(image_data, person_name) with the result detect_liveness
\* gives when it is called: what analyze_image returns and what it leaves in
\* the store
AnalyzeImageResult(payload, person_name, liveness_detection) ==
    LET face_detection == DetectFace(payload)
        vectorization == VectorizeFaceResult(payload, person_name)
        unchanged == [face_encodings |-> face_encodings,
                      face_metadata |-> face_metadata]
    IN IF ~GoesOnToVectorization(face_detection, liveness_detection)
       THEN unchanged @@
            [result |-> [success |-> FALSE, error |-> "No face detected in image",
                         face_detection |-> face_detection,
                         steps |-> <<"detect_face">>]]
       ELSE IF ~vectorization.result.success
       THEN unchanged @@
            [result |-> [success |-> FALSE, error |-> "Face vectorization failed",
                         face_detection |-> face_detection,
                         liveness_detection |-> liveness_detection,
                         steps |-> <<"detect_face", "detect_liveness",
                                     "vectorize_face">>]]
       ELSE [face_encodings |-> vectorization.face_encodings,
             face_metadata |-> vectorization.face_metadata,
             result |-> [success |-> TRUE,
                         person_name |-> vectorization.result.person_name,
                         face_id |-> vectorization.result.face_id,
                         face_detection |-> face_detection,
                         liveness_detection |-> liveness_detection,
                         vectorization |-> vectorization.result,
                         quality_assessment |->
                             AssessOverallQuality(face_detection, liveness_detection,
                                                  vectorization.result),
                         analysis_timestamp |-> clock,
                         steps |-> <<"detect_face", "detect_liveness",
                                     "vectorize_face">>]]

\* the results detect_liveness can give analyze_image for a picture; for a
\* picture without a face it is not called
LivenessFor(payload) ==
    IF DetectFace(payload).face_detected THEN LivenessDetections[payload]
    ELSE {[is_live |-> FALSE, liveness_score |-> 0, confidence |-> "none"]}

\* analyze_image(image_data, person_name); the store holds MaxFaces at most
AnalyzeImage(payload, person_name) ==
    /\ program = "face_analysis_system"
    /\ \E liveness_detection \in LivenessFor(payload) :
          \E done \in {AnalyzeImageResult(payload, person_name, liveness_detection)} :
             /\ Len(done.face_encodings) <= MaxFaces
             /\ face_encodings' = done.face_encodings
             /\ face_metadata' = done.face_metadata
             /\ ret' = [op |-> "analyze"] @@ done.result
    /\ UNCHANGED <<program, encoderVars, verifyVars, libraryVars, threads, comparison_matrix, clock>>

AnalysisNext ==
    \/ \E c \in AnalysisCalls :
          VectorizeFace(c.image_data, c.person_name)
    \/ \E c \in AnalysisCalls :
          AnalyzeImage(c.image_data, c.person_name)
    \/ \E face_id1 \in CallerFaceIds, face_id2 \in CallerFaceIds :
          AnalysisCompareFaces(face_id1, face_id2)
    \/ GenerateComparisonMatrix
    \/ GenerateAnalysisReport
    \/ Tick

(***************************************************************************)
(* The face locators: FaceAnalysisSystem.detect_face, encode_face of       *)
(* simple_face_recognition.py and detect_face_ultra_secure of              *)
(* secure_face_recognition.py, each called on one decoded picture.         *)
(***************************************************************************)
Locators ==
    [detect_face |-> AnalysisDetectParams,
     simple_encode_face |-> SimpleDetectParams,
     detect_face_ultra_secure |-> SecureDetectParams]

\* pictures with one candidate region, of every size and support on both
\* sides of the thresholds the locators use, and the picture without one
LocatorSizes == {10, 18, 25, 50, 90, 120}

LocatorNeighbours == {1, 2, 4, 5, 7, 9}

LocatorImages ==
    {[id |-> "L", cands |-> << Region(sz, nb, <<100, 200, 150>>) >>] :
        sz \in LocatorSizes, nb \in LocatorNeighbours}
    \cup {ImgN}

\* the locator on one picture: the detector passes it ran, and whether it
\* reported that there is no face (len(faces) == 0 after the last pass)
Locate(locator, img) ==
    LET passes == DetectorPasses(img, Locators[locator])
    IN [passes |-> passes, no_face |-> passes[Len(passes)].faces = <<>>]

\* the locators keep nothing between two calls: each call is one run
CallLocate(locator, img) ==
    /\ program = "face_locators"
    /\ call = NoCall
    /\ \E located \in {Locate(locator, img)} :
          call' = [fn |-> "locate", locator |-> locator, img |-> img,
                   passes |-> located.passes, no_face |-> located.no_face]
    /\ UNCHANGED <<program, encoderVars, verifyVars, analysisVars>>

LocatorNext ==
    \E locator \in DOMAIN Locators, img \in LocatorImages : CallLocate(locator, img)

(***************************************************************************)
(* The temporary image files of server/actual_deepface.py and              *)
(* server/liveness_detection.py.  A call is followed from its first        *)
(* statement to its return or raise; created are the files it made with    *)
(* NamedTemporaryFile(delete=False), remaining those still on disk after.  *)
(***************************************************************************)
\* process_image_from_base64(image_data): the payload is decoded before the
\* file is made, so a payload that does not decode leaves no file
ProcessImageFromBase64(image_data, name) ==
    IF image_data.corrupt THEN Raise("Failed to process image") ELSE Ok(name)

\* what DeepFace.verify does with two files
DeepFaceVerifyOutcomes(registered, captured) ==
    {Raise("Face could not be detected")}
    \cup IF DeepFaceMayDetect(registered.img) /\ DeepFaceMayDetect(captured.img)
         THEN {Ok(CompareResult(d, CustomThreshold)) : d \in FacenetDistances}
                  \cup {Raise("DeepFace engine error")}
         ELSE {}

\* verify_faces_with_actual_deepface(registered_image_data, captured_image_data)
\* with its finally clause: temp_files is assigned after both files exist
VerifyFacesWithActualDeepface(registered_image_data, captured_image_data) ==
    LET registered_path ==
            ProcessImageFromBase64(registered_image_data, "registered.jpg")
        captured_path ==
            ProcessImageFromBase64(captured_image_data, "captured.jpg")
        both == registered_path.ok /\ captured_path.ok
        created ==
            (IF registered_path.ok THEN {registered_path.val} ELSE {})
                \cup (IF both THEN {captured_path.val} ELSE {})
        temp_files ==
            IF both THEN {registered_path.val, captured_path.val} ELSE {}
        results ==
            IF ~registered_path.ok THEN {registered_path}
            ELSE IF ~captured_path.ok THEN {captured_path}
            ELSE DeepFaceVerifyOutcomes(registered_image_data, captured_image_data)
    IN {[result |-> r, created |-> created, remaining |-> created \ temp_files] :
           r \in results}

\* analyze_age_and_human_verification(image) with its file: os.unlink follows
\* DeepFace.analyze inside the try block
AgeVerificationFiles(deepface) ==
    IF ~deepface.available THEN [created |-> {}, remaining |-> {}]
    ELSE [created |-> {"frame.jpg"},
          remaining |-> IF deepface.raised THEN {"frame.jpg"} ELSE {}]

\* each call is one request
TempFileNext ==
    /\ program = "temporary_files"
    /\ call = NoCall
    /\ \/ \E registered \in VerifyPayloads, captured \in VerifyPayloads :
             \E done \in VerifyFacesWithActualDeepface(registered, captured) :
                call' = [fn |-> "verify_faces_with_actual_deepface",
                         registered_image_data |-> registered,
                         captured_image_data |-> captured,
                         raised |-> ~done.result.ok, result |-> done.result,
                         created |-> done.created, remaining |-> done.remaining]
       \/ \E image \in Frames \ {CorruptFrame} : \E deepface \in DeepFaceOutcomes :
             \E files \in {AgeVerificationFiles(deepface)} :
                call' = [fn |-> "analyze_age_and_human_verification",
                         image |-> image, deepface |-> deepface,
                         raised |-> FALSE,
                         result |-> AnalyzeAgeAndHumanVerification(deepface),
                         created |-> files.created, remaining |-> files.remaining]
    /\ UNCHANGED <<program, encoderVars, verifyVars, analysisVars>>

(***************************************************************************)
(* Specifications                                                          *)
(***************************************************************************)
vars == <<program, encoderVars, verifyVars, analysisVars, libraryVars>>

Environments == [deepface : BOOLEAN, fallback : BOOLEAN, seed : Seeds]

NoEnvironment == [deepface |-> FALSE, fallback |-> FALSE, seed |-> 0]

NoMatrix ==
    [stored |-> FALSE, distance_matrix |-> <<>>, similarity_matrix |-> <<>>,
     face_ids |-> <<>>, person_names |-> <<>>]

InitEncoderVars ==
    /\ store = {}
    /\ out = NoOut

InitVerifyVars ==
    /\ pc = "import"
    /\ DEEPFACE_AVAILABLE = FALSE
    /\ FALLBACK_READY = FALSE
    /\ request = NoRequest
    /\ warning_message = "none"
    /\ responses = <<>>
    /\ trace = NoTrace

\* FaceAnalysisSystem.__init__
InitAnalysisVars ==
    /\ face_encodings = <<>>
    /\ face_metadata = <<>>
    /\ comparison_matrix = NoMatrix
    /\ clock = 0
    /\ ret = [op |-> "none", success |-> FALSE]
    /\ threads = NoThreads

InitLibraryVars == call = NoCall

\* the encoder scripts, one call per process
InitEncoders ==
    /\ program \in EncoderPrograms
    /\ env = NoEnvironment
    /\ InitEncoderVars
    /\ InitVerifyVars
    /\ InitAnalysisVars
    /\ InitLibraryVars

SpecEncoders == InitEncoders /\ [][EncoderNext]_vars

\* the verify orchestrator, one request per process
InitVerify ==
    /\ program = "actual_deepface"
    /\ env \in Environments
    /\ InitEncoderVars
    /\ InitVerifyVars
    /\ InitAnalysisVars
    /\ InitLibraryVars

SpecVerify == InitVerify /\ [][VerifyNext]_vars

\* one FaceAnalysisSystem object in one process
InitAnalysis ==
    /\ program = "face_analysis_system"
    /\ env \in {e \in Environments : ~e.deepface /\ ~e.fallback}
    /\ InitEncoderVars
    /\ InitVerifyVars
    /\ InitAnalysisVars
    /\ InitLibraryVars

SpecAnalysis == InitAnalysis /\ [][AnalysisNext]_vars

\* one FaceAnalysisSystem object shared by an enrolling and a building thread
InitThreads ==
    /\ program = "face_analysis_system_threads"
    /\ env \in {e \in Environments : ~e.deepface /\ ~e.fallback}
    /\ InitEncoderVars
    /\ InitVerifyVars
    /\ InitAnalysisVars
    /\ InitLibraryVars

SpecThreads == InitThreads /\ [][ThreadsNext]_vars

\* the liveness functions called on frames of the caller's choice
InitLiveness ==
    /\ program = "liveness_detection"
    /\ env = NoEnvironment
    /\ InitEncoderVars
    /\ InitVerifyVars
    /\ InitAnalysisVars
    /\ InitLibraryVars

SpecLiveness == InitLiveness /\ [][LivenessNext]_vars

\* calculate_face_distance as a library function
InitDistance ==
    /\ program = "calculate_face_distance"
    /\ env = NoEnvironment
    /\ InitEncoderVars
    /\ InitVerifyVars
    /\ InitAnalysisVars
    /\ InitLibraryVars

SpecDistance == InitDistance /\ [][DistanceNext]_vars

\* the face locators called on pictures of the caller's choice
InitLocators ==
    /\ program = "face_locators"
    /\ env = NoEnvironment
    /\ InitEncoderVars
    /\ InitVerifyVars
    /\ InitAnalysisVars
    /\ InitLibraryVars

SpecLocators == InitLocators /\ [][LocatorNext]_vars

\* the functions that write temporary image files, one request each
InitTempFiles ==
    /\ program = "temporary_files"
    /\ env = NoEnvironment
    /\ InitEncoderVars
    /\ InitVerifyVars
    /\ InitAnalysisVars
    /\ InitLibraryVars

SpecTempFiles == InitTempFiles /\ [][TempFileNext]_vars

\* every program
Init ==
    \/ InitEncoders \/ InitVerify \/ InitAnalysis \/ InitThreads
    \/ InitDistance \/ InitLiveness \/ InitLocators \/ InitTempFiles

Next ==
    \/ EncoderNext \/ VerifyNext \/ AnalysisNext \/ ThreadsNext
    \/ DistanceNext \/ LivenessNext \/ LocatorNext \/ TempFileNext

Spec == Init /\ [][Next]_vars

(***************************************************************************)
(* Properties                                                              *)
(***************************************************************************)
FaceIds == {i.id : i \in FaceImages}

\* C1: an encoding that simple_face_recognition or reliable_face_recognition
\* returned for an image, compared later (in another process) against the same
\* image, gives is_match = true, whatever the tolerance >= 0.
RoundTripSelfMatch ==
    (/\ program \in {"simple_face_recognition", "reliable_face_recognition"}
     /\ out.op = "compare"
     /\ out.success
     /\ out.knownImg = out.img)
    => out.result.is_match

\* C2: two encode calls on the same decoded image, in any two processes and
\* with any transport form of the image, return the same vector.
EncodeIsPure ==
    \A r1 \in store, r2 \in store : r1.img = r2.img => r1.enc = r2.enc

\* C3: the stored encoding of one face compared against the image of another
\* face gives distance > tolerance and is_match = false.
DifferentPersonPrecision ==
    (/\ out.op = "compare"
     /\ out.success
     /\ out.knownImg \in FaceIds
     /\ out.img \in FaceIds
     /\ out.knownImg # out.img)
    => (~out.result.is_match /\ out.result.distance > out.result.tolerance)

\* C4: in every successful compare or verify result, of the scripts, of both
\* verify engines and of FaceAnalysisSystem.compare_faces, the match flag is
\* true exactly when the reported distance is <= the reported threshold (a NaN
\* distance compares false; FaceAnalysisSystem decides against its fixed 0.6).
MatchFlagIsDistanceWithinThreshold ==
    /\ (out.op = "compare" /\ out.success)
          => (out.result.is_match
                <=> (out.result.distance # NaN
                     /\ out.result.distance <= out.result.tolerance))
    /\ \A i \in 1..Len(responses) :
          responses[i].success
             => (responses[i].verified
                   <=> responses[i].distance <= responses[i].threshold)
    /\ (ret.op = "compare" /\ ret.success)
          => (ret.is_match <=> ret.distance <= MatchThreshold)

\* C4, its case: the primary engine reports a distance equal to the threshold
MatchFlagAtThreshold ==
    /\ Len(responses) = 1
    /\ responses[1].success
    /\ responses[1].engine = "deepface"
    /\ responses[1].distance = responses[1].threshold
    /\ responses[1].verified

PrimaryRaised == trace.primaryOutcome \notin {"none", "ok"}

\* C5 as stated: when a verify request has ended, the fallback was invoked
\* at most once, and it was invoked if and only if the primary engine was
\* unavailable or raised.
FallbackIffPrimaryUnavailableOrRaised ==
    /\ trace.fallbackCalls <= 1
    /\ pc = "done"
          => (trace.fallbackCalls = 1 <=> (~DEEPFACE_AVAILABLE \/ PrimaryRaised))

\* C5, amended: for a request whose body parsed, the fallback is invoked at
\* most once and exactly when the primary engine is unavailable or raised; it
\* is never invoked after a primary success, no engine runs after the fallback
\* failed, and a body that does not parse reaches no engine.
FallbackOnceAndOnlyOnPrimaryFailure ==
    /\ trace.fallbackCalls <= 1
    /\ trace.primaryCalls <= 1
    /\ (pc = "done" /\ request.parsed)
          => (trace.fallbackCalls = 1 <=> (~DEEPFACE_AVAILABLE \/ PrimaryRaised))
    /\ (pc = "done" /\ ~request.parsed)
          => (trace.fallbackCalls = 0 /\ trace.primaryCalls = 0)
    /\ trace.primaryOutcome = "ok" => (trace.fallbackCalls = 0 /\ pc = "done")
    /\ trace.fallbackCalls = 1 => pc = "done"
    /\ (trace.primaryCalls = 1 /\ trace.fallbackCalls = 1) => PrimaryRaised

\* C5, its case: the primary engine raised and the one fallback call decided
FallbackAfterPrimaryRaised ==
    /\ pc = "done"
    /\ DEEPFACE_AVAILABLE
    /\ trace.primaryOutcome = "DeepFace engine error"
    /\ trace.fallbackCalls = 1
    /\ trace.fallbackOutcome = "ok"

ExactlyOneResponseSoFar ==
    /\ ~trace.uncaught
    /\ Len(responses) <= 1
    /\ pc = "done" => Len(responses) = 1
    /\ \A i \in 1..Len(responses) :
          responses[i].success
             => /\ responses[i].engine \in {"deepface", "opencv_fallback"}
                /\ responses[i].engine = "deepface" <=> trace.primaryOutcome = "ok"
                /\ responses[i].engine = "opencv_fallback"
                      <=> trace.fallbackOutcome = "ok"

\* how far main() has come
Rank(at) ==
    CASE at = "import" -> 0
      [] at = "main" -> 1
      [] at = "primary" -> 2
      [] at = "fallback" -> 3
      [] at = "done" -> 4

\* C6: every verify request ends (a step is possible until main is done, and
\* every step brings main further), with exactly one JSON response and no
\* exception left uncaught, and a success response names the engine that
\* produced its result.
VerifyEndsWithOneResponse ==
    /\ [](ExactlyOneResponseSoFar /\ (pc # "done" => ENABLED VerifyNext))
    /\ [][Rank(pc') > Rank(pc)]_vars

\* C6, its case: the primary engine raised and the fallback cannot be loaded
BothEnginesFailed ==
    /\ pc = "done"
    /\ trace.primaryOutcome = "DeepFace engine error"
    /\ trace.fallbackOutcome = "fallback could not be loaded"
    /\ Len(responses) = 1
    /\ ~responses[1].success

\* C7: whenever a verify decision is produced, both compared embeddings are
\* of one encoder variant; on the fallback path both images are encoded by
\* the fallback encoder in this request, and the primary engine contributed
\* no embedding or distance.
ComparedEmbeddingsShareVariant ==
    \A i \in 1..Len(responses) :
       responses[i].success
          => /\ trace.refVariant = trace.capVariant
             /\ responses[i].engine = "deepface"
                   => (trace.refVariant = "Facenet" /\ trace.fallbackCalls = 0)
             /\ responses[i].engine = "opencv_fallback"
                   => LET reference == SimpleEncodeFace(request.registered_image, env.seed)
                          capture == SimpleEncodeFace(request.captured_image, env.seed)
                      IN /\ trace.refVariant = "opencv-simple"
                         /\ trace.primaryOutcome # "ok"
                         /\ reference.ok
                         /\ capture.ok
                         /\ responses[i].distance
                               = Norm(VecSub(reference.val, capture.val))

\* C7, its case: a fallback decision after the primary engine raised
FallbackDecisionOfTwoFaces ==
    /\ Len(responses) = 1
    /\ responses[1].success
    /\ responses[1].engine = "opencv_fallback"
    /\ PrimaryRaised
    /\ request.registered_image # request.captured_image

\* C8: when the primary engine fails because no face is detected, the
\* request ends there and the fallback encoder is not attempted.
NoFaceIsTerminal ==
    trace.primaryOutcome = "Face could not be detected" => trace.fallbackCalls = 0

\* C9: a compare that is given a known encoding whose length differs from the
\* length of the encoding of the unknown image fails and returns no decision.
DimensionMismatchFails ==
    (out.op = "compare" /\ out.success) => Len(out.known) = out.unknownLen

\* C10: calculate_face_distance of an encoding and itself is 0, in itself and
\* as compare_faces reports it, and the diagonal of the stored and of the
\* returned comparison matrix is 0.
SelfDistanceIsZero ==
    /\ \A i \in 1..Len(face_encodings) :
          CalculateFaceDistance(face_encodings[i].val, face_encodings[i].val) = Ok(0)
    /\ (/\ ret.op = "compare"
        /\ ret.success
        /\ DictGet(face_encodings, ret.face_id1) = DictGet(face_encodings, ret.face_id2))
          => ret.distance = 0
    /\ comparison_matrix.stored
          => \A i \in 1..Len(comparison_matrix.distance_matrix) :
                comparison_matrix.distance_matrix[i][i] = 0
    /\ (ret.op = "matrix" /\ ret.success)
          => \A i \in 1..ret.num_faces : ret.distance_matrix[i][i] = 0

\* C10, its case: a face compared with itself while a matrix is stored
SelfComparedWithMatrixStored ==
    /\ comparison_matrix.stored
    /\ ret.op = "compare"
    /\ ret.success
    /\ ret.face_id1 = ret.face_id2
    /\ ret.distance = 0

\* C11: calculate_face_distance gives the same result, or the same error,
\* with its two arguments exchanged.
DistanceIsSymmetric ==
    call.fn = "calculate_face_distance"
       => call.result = CalculateFaceDistance(call.encoding2, call.encoding1)

\* C11, its case: two different encodings of one dimension whose small
\* distance the calibration lifts
LiftedDistanceOfTwoEncodings ==
    /\ call.fn = "calculate_face_distance"
    /\ call.encoding1 # call.encoding2
    /\ call.result.ok
    /\ call.result.val >= LiftBase
    /\ call.result.val < LiftBase + LiftBelow \div 10

\* C12: on a store of fewer than two faces generate_comparison_matrix, and
\* generate_analysis_report through it, fail with a too-few-faces error and
\* no comparison matrix is stored.
TooFewFacesFailWithoutMatrix ==
    (ret.op \in {"matrix", "report"} /\ Len(face_encodings) < 2)
       => /\ ~ret.success
          /\ ret.error \in {"Need at least 2 faces", "No faces have been processed yet"}
          /\ comparison_matrix = NoMatrix

\* C12, its case: the report asked of a store holding one face
ReportOfOneFace ==
    /\ ret.op = "report"
    /\ Len(face_encodings) = 1
    /\ ret.error = "Need at least 2 faces"

\* C13: on a store of N >= 2 faces, equal embeddings among them or not,
\* generate_comparison_matrix returns success with an N x N distance matrix
\* that is symmetric and has a zero diagonal.
CohortOfTwoOrMoreGivesMatrix ==
    [][(GenerateComparisonMatrix /\ Len(face_encodings) >= 2)
          => /\ ret'.success
             /\ LET n == Len(face_encodings)
                    m == ret'.distance_matrix
                IN /\ Len(m) = n
                   /\ \A i \in 1..n : Len(m[i]) = n /\ m[i][i] = 0
                   /\ \A i, j \in 1..n : m[i][j] = m[j][i]]_vars

\* the pair (i, j) of a matrix result is in the given list of that result
Listed(result, list, i, j) ==
    \E k \in 1..Len(list) :
        /\ list[k].person1 = result.person_names[i]
        /\ list[k].person2 = result.person_names[j]
        /\ list[k].distance = result.distance_matrix[i][j]

\* C14: a matrix result lists a pair under closest_pairs exactly when its
\* distance is <= 0.6 and under most_different_pairs exactly when it is > 0.6,
\* and compare_faces, called next on the same pair, returns is_match exactly
\* for the pairs listed as closest, the distance 0.6 included.
ClassificationAgreesWithIsMatch ==
    /\ [](ret.op = "matrix" /\ ret.success
            => \A i, j \in 1..ret.num_faces :
                  i < j =>
                     /\ Listed(ret, ret.closest_pairs, i, j)
                           <=> ret.distance_matrix[i][j] <= MatchThreshold
                     /\ Listed(ret, ret.most_different_pairs, i, j)
                           <=> ret.distance_matrix[i][j] > MatchThreshold)
    /\ [][(ret.op = "matrix" /\ ret.success /\ ret'.op = "compare" /\ ret'.success)
             => \A i, j \in 1..ret.num_faces :
                   (/\ i < j
                    /\ face_encodings[i].key = ret'.face_id1
                    /\ face_encodings[j].key = ret'.face_id2)
                      => (ret'.is_match <=> Listed(ret, ret.closest_pairs, i, j))]_vars

\* the off-diagonal entries of an n x n matrix, row by row
OffDiagonal(m) ==
    Flatten([i \in 1..Len(m) |->
                [j \in 1..(Len(m) - 1) |-> m[i][IF j < i THEN j ELSE j + 1]]])

\* C15: the statistics of a matrix result run over all N(N-1) off-diagonal
\* entries, zeros included: min_distance is the smallest off-diagonal entry,
\* max_distance the largest, mean_distance and std_distance their mean and
\* standard deviation.
StatisticsCoverOffDiagonal ==
    (ret.op = "matrix" /\ ret.success)
       => LET off == OffDiagonal(ret.distance_matrix)
              mean == SumSeq(off) \div Len(off)
              dev == [i \in 1..Len(off) |-> off[i] - mean]
          IN /\ ret.statistics.min_distance = MinSeq(off)
             /\ ret.statistics.max_distance = MaxSeq(off)
             /\ ret.statistics.mean_distance = mean
             /\ ret.statistics.std_distance = ISqrt(SumSq(dev) \div Len(off))

\* C16: the stored comparison matrix, when there is one, covers exactly the
\* face ids enrolled now; no enrollment leaves an older matrix in place.
StoredMatrixCoversEnrolledFaces ==
    comparison_matrix.stored
       => /\ comparison_matrix.face_ids = DictKeys(face_encodings)
          /\ Len(comparison_matrix.distance_matrix) = Len(face_encodings)

\* C17: every successful vectorize_face adds exactly one record to the store
\* and leaves the records already there as they were, also for an image
\* enrolled again within the same millisecond.
EnrollmentAddsOneRecord ==
    [][((\E c \in AnalysisCalls : VectorizeFace(c.image_data, c.person_name))
           /\ ret'.success)
          => /\ Len(face_encodings') = Len(face_encodings) + 1
             /\ Len(face_metadata') = Len(face_metadata) + 1
             /\ SubSeq(face_encodings', 1, Len(face_encodings)) = face_encodings
             /\ SubSeq(face_metadata', 1, Len(face_metadata)) = face_metadata]_vars

\* C18: a build that runs while an enrollment is under way finds, for every
\* face id it listed, the encoding and the metadata, and does not fail with
\* the error of a raised exception.
BuildSeesWholeRecords ==
    [][BuildFinish
          => /\ \A i \in 1..Len(threads.build.face_ids) :
                   /\ DictHas(face_encodings, threads.build.face_ids[i])
                   /\ DictHas(face_metadata, threads.build.face_ids[i])
             /\ (~ret'.success => ret'.error # "Comparison matrix generation failed")]_vars

\* C19: every liveness result, of comprehensive_liveness_check and of
\* detect_liveness on its normal, its basic-analysis and its error path, has
\* a liveness_score within [0, 100] and is_live exactly when the score is
\* >= 70; calculate_liveness_score stays within [0, 100] for every
\* combination of sub-check outcomes.
LivenessScoreDecidesIsLive ==
    /\ call.fn = "calculate_liveness_score"
          => (0 <= call.result /\ call.result <= 100 * PixelUnit)
    /\ (\/ call.fn = "detect_liveness"
        \/ (call.fn = "comprehensive_liveness_check" /\ call.result.success))
          => /\ 0 <= call.result.liveness_score
             /\ call.result.liveness_score <= 100 * PixelUnit
             /\ call.result.is_live
                   <=> call.result.liveness_score >= LiveScore * PixelUnit

\* C19, its case: the basic analysis, reached because the liveness module is
\* missing, scores a decodable frame 60 and reports it as not live
BasicAnalysisBelowLiveScore ==
    /\ call.fn = "detect_liveness"
    /\ ~call.imported
    /\ call.image_data.decodes
    /\ call.result.liveness_score = 60 * PixelUnit
    /\ ~call.result.is_live

\* C20: a single frame that is one flat colour gets a quality score below 60
\* and a liveness score below 70 and is not live, whatever its colour and
\* whatever the human check returns.
FlatFrameIsNotLive ==
    (/\ call.fn = "comprehensive_liveness_check"
     /\ Len(call.frames_data) = 1
     /\ call.frames_data[1] \in FlatFrames)
       => /\ call.result.success
          /\ call.result.analysis.quality.score < GoodQuality
          /\ ~call.result.analysis.quality.is_good_quality
          /\ call.result.liveness_score < LiveScore * PixelUnit
          /\ ~call.result.is_live

\* C20, its case: a flat grey frame of good brightness, DeepFace raising and
\* the human check failing open: 55 points, the most a flat frame gets
FlatFrameAtItsBest ==
    /\ call.fn = "comprehensive_liveness_check"
    /\ call.frames_data = <<Frame(<<Grey(128), Grey(128), Grey(128), Grey(128)>>, <<>>)>>
    /\ call.deepface.raised
    /\ call.result.analysis.human.is_human
    /\ call.result.liveness_score = 55 * PixelUnit

\* C26: the match decision of compare_faces is monotone in the Euclidean
\* distance: when a pair of encodings is a match at a tolerance, every pair
\* that is closer is a match at it too, and calculate_face_distance never
\* orders two pairs against their Euclidean distances.
MatchIsMonotoneInDistance ==
    (call.fn = "calculate_face_distance" /\ call.result.ok)
       => \A enc1, enc2 \in DistanceInputs :
             (/\ Len(enc1) = Len(enc2)
              /\ Norm(VecSub(enc1, enc2))
                    < Norm(VecSub(call.encoding1, call.encoding2)))
                => /\ CalculateFaceDistance(enc1, enc2).val <= call.result.val
                   /\ CompareResult(call.result.val, DefaultTolerance).is_match
                         => CompareResult(CalculateFaceDistance(enc1, enc2).val,
                                          DefaultTolerance).is_match

\* C27: calculate_face_distance returns 0 only for identical encodings and
\* nothing strictly between 0 and 0.55; two distinct encodings whose scaled
\* distance is below 0.55 get a distance strictly above 0.6 and are not a
\* match at the default tolerance.
DistinctCloseEncodingsNeverMatch ==
    (call.fn = "calculate_face_distance" /\ call.result.ok)
       => /\ call.result.val = 0 => call.encoding1 = call.encoding2
          /\ ~(0 < call.result.val /\ call.result.val < LiftBelow)
          /\ (/\ call.encoding1 # call.encoding2
              /\ (Norm(VecSub(call.encoding1, call.encoding2)) * CalibrationPercent)
                    \div 100 < LiftBelow)
                => /\ call.result.val > DefaultTolerance
                   /\ ~CompareResult(call.result.val, DefaultTolerance).is_match

\* the recommendations of a result hold the given line
Recommends(result, line) ==
    \E i \in 1..Len(result.recommendations) : result.recommendations[i] = line

\* C24: the recommendations of every successful liveness assessment are not
\* empty and hold the hint of each sub-check that lowered the score: low
\* quality, a screen reflection, a failed human check, and, for an assessment
\* over two or more valid frames that found no motion, the move/blink hint.
DegradedSubChecksAreHinted ==
    (call.fn = "comprehensive_liveness_check" /\ call.result.success)
       => /\ call.result.recommendations # <<>>
          /\ call.result.analysis.quality.score < GoodQuality
                => Recommends(call.result, "Improve image quality")
          /\ call.result.analysis.reflection.is_screen_reflection
                => Recommends(call.result, "Avoid showing photos or screens")
          /\ ~call.result.analysis.human.is_human
                => Recommends(call.result, "Face verification failed")
          /\ (call.result.frames_analyzed >= 2
                 /\ ~call.result.analysis.motion.has_motion)
                => Recommends(call.result, "Move slightly or blink")

\* C29: whenever generate_comparison_matrix returns success = false, the
\* stored comparison matrix is the one stored before the call; a matrix is
\* stored only by a call that reports success.
FailedMatrixKeepsStoredMatrix ==
    [][(GenerateComparisonMatrix /\ ~ret'.success)
          => comparison_matrix' = comparison_matrix]_vars

\* C21: every result a FaceAnalysisSystem operation returns carries a success
\* boolean, compare_faces on an unknown face id included, and every failure
\* result carries success = false together with an error.
ResultsCarrySuccess ==
    ret.op # "none"
       => /\ "success" \in DOMAIN ret
          /\ "has_success" \in DOMAIN ret => ret.has_success
          /\ ~ret.success => "error" \in DOMAIN ret

\* C25: when the liveness check inside analyze_image does not pass, the
\* recommendations of the quality assessment hold the live-camera hint and
\* do not say that the image quality is good for face recognition.
FailedLivenessIsHinted ==
    (ret.op = "analyze" /\ ret.success /\ ~ret.liveness_detection.is_live)
       => LET recommendations == ret.quality_assessment.recommendations
          IN /\ \E i \in 1..Len(recommendations) :
                   recommendations[i] = "Use live camera feed, avoid photos of photos"
             /\ \A i \in 1..Len(recommendations) :
                   recommendations[i] # "Image quality is good for face recognition"

\* C28: after any sequence of vectorize_face, analyze_image, compare_faces,
\* generate_comparison_matrix and generate_analysis_report calls, successful
\* or failing, face_encodings and face_metadata have the same keys, so that
\* the metadata of every stored face id is found.
StoreKeysAgree ==
    /\ DictKeys(face_encodings) = DictKeys(face_metadata)
    /\ \A i \in 1..Len(face_encodings) :
          DictHas(face_metadata, face_encodings[i].key)

\* C28, its case: a store of two faces after an analyze_image call that
\* failed at vectorization
StoreOfTwoAfterFailedAnalysis ==
    /\ Len(face_encodings) >= 2
    /\ ret.op = "analyze"
    /\ ~ret.success
    /\ ret.error = "Face vectorization failed"

\* C30: what analyze_image enrolls does not depend on the liveness result:
\* with any other result of detect_liveness the call would have returned the
\* same success flag and left the same encodings and metadata in the store;
\* for a picture without a face the store is left as it was and neither the
\* liveness check nor vectorization runs.
EnrollmentIgnoresLiveness ==
    /\ \A c \in AnalysisCalls :
          \E one \in {AnalyzeImageResult(c.image_data, c.person_name,
                                         CHOOSE l \in LivenessFor(c.image_data) : TRUE)} :
             /\ \A liveness_detection \in LivenessFor(c.image_data) :
                   \E other \in {AnalyzeImageResult(c.image_data, c.person_name,
                                                    liveness_detection)} :
                      /\ one.result.success = other.result.success
                      /\ one.face_encodings = other.face_encodings
                      /\ one.face_metadata = other.face_metadata
             /\ ~DetectFace(c.image_data).face_detected
                   => /\ one.result.steps = <<"detect_face">>
                      /\ one.face_encodings = face_encodings
                      /\ one.face_metadata = face_metadata
    /\ (ret.op = "analyze" /\ ~ret.face_detection.face_detected)
          => ret.steps = <<"detect_face">>

\* C30, its case: a picture whose liveness check did not pass is enrolled
EnrolledThoughNotLive ==
    /\ ret.op = "analyze"
    /\ ret.success
    /\ ~ret.liveness_detection.is_live
    /\ DictHas(face_encodings, ret.face_id)
    /\ \E liveness_detection \in LivenessFor(Payload(ImgA, FALSE)) :
          liveness_detection.is_live

\* C23: every face locator runs at most two detector passes; the second has
\* a smaller minimum size and a lower neighbour threshold than the first and
\* runs only when the first found no region; the locator reports no face
\* exactly when both passes found no region.
LocatorsRunTwoPasses ==
    call.fn = "locate"
       => LET passes == call.passes
          IN /\ Len(passes) <= 2
             /\ Len(passes) = 2
                   => /\ passes[1].faces = <<>>
                      /\ passes[2].minSize < passes[1].minSize
                      /\ passes[2].minNeighbors < passes[1].minNeighbors
             /\ call.no_face
                   <=> (Len(passes) = 2 /\ \A i \in 1..2 : passes[i].faces = <<>>)

\* C22: when verify_faces_with_actual_deepface or
\* analyze_age_and_human_verification has returned or raised, none of the
\* temporary image files the call created is left on disk.
TemporaryFilesAreDeleted ==
    call.fn \in {"verify_faces_with_actual_deepface",
                 "analyze_age_and_human_verification"}
       => call.remaining = {}

====
